---- MODULE Spec2Model ----
(***************************************************************************)
(* Verification model of claude-capsule-kit: the crew lifecycle CLI        *)
(* (bin/cck.js), the team-state manager, the crew-identity resolver, the   *)
(* worktree manager script, the worktree GC and the capture hooks.         *)
(*                                                                         *)
(* Conventions.  Paths and branch names are sequences of one-character     *)
(* strings so that sanitising, prefix and suffix tests are computed as     *)
(* the code computes them.  Time is counted in hours.  A JavaScript        *)
(* null/undefined is NoPath (a path), NoTime (a timestamp), NoAgent (an    *)
(* agent id) or a record with present = FALSE (a file that is missing).    *)
(***************************************************************************)
EXTENDS Integers, Sequences, FiniteSets, TLC

VARIABLES
    ops,            \* history: number of operations run so far
    now,            \* wall clock, in hours
    teamStates,     \* ~/.claude/crew/<hash>/<profile>/team-state.json, per profile
    registry,       \* ~/.claude/crew/<hash>/worktrees.json
    localRegistry,  \* <project>/.claude/crew/worktrees.json (worktree manager script)
    dirs,           \* the candidate worktree directories on disk
    shared,         \* entries of the source project's .claude/ that still hold their content
    hooks,          \* session-end hook processes: position and the TeamState they read
    ended,          \* history: session-end updates written since the profile's last start
    lastOp,         \* history: what the most recent step did
    store,          \* the global record store (capsule.db)
    clock,          \* Date.now() of the hooks: one tick per hook run
    seen,           \* history: the hook runs so far, in order
    lastOut,        \* history: what the most recent session-start printed
    repo,           \* the git repository of the project: commits, branches, tags, HEAD
    mergeOut,       \* what the most recent merge-pilot call returned and ran
    calls           \* history: calls of the config reader's functions, with what they returned

vars == <<ops, now, teamStates, registry, localRegistry, dirs, shared, hooks, ended, lastOp,
         store, clock, seen, lastOut, repo, mergeOut, calls>>

(***************************************************************************)
(* Bounds                                                                  *)
(***************************************************************************)
MaxTime == 6
\* operations started in one history
MaxOps == 4

\* one more operation starts
Step == ops < MaxOps /\ ops' = ops + 1


(***************************************************************************)
(* Null values                                                             *)
(***************************************************************************)
NoPath == <<>>

NoTime == -1

NoAgent == "null"

Range(s) == {s[i] : i \in 1..Len(s)}

(***************************************************************************)
(* Names, branches, paths                                                  *)
(***************************************************************************)
Root == <<"/", "p">>

BrA == <<"f", "e", "a", "t", "/", "a">>

BrB == <<"f", "e", "a", "t", "/", "b">>

BrC == <<"f", "e", "a", "t", "/", "c">>

\* "dev-feat/a" and "feat#a"
BrDevA == <<"d", "e", "v", "-">> \o BrA

BrHashA == <<"f", "e", "a", "t", "#", "a">>

ProfileChars(p) ==
    CASE p = "dev" -> <<"d", "e", "v">>
      [] p = "qa" -> <<"q", "a">>
      [] OTHER -> <<"d", "e", "f", "a", "u", "l", "t">>

\* branch.replace(/\//g, '--')
RECURSIVE ReplaceSlashes(_)
ReplaceSlashes(s) ==
    IF s = <<>> THEN <<>>
    ELSE (IF Head(s) = "/" THEN <<"-", "-">> ELSE <<Head(s)>>) \o ReplaceSlashes(Tail(s))

resolveWorktreePath(projectRoot, branch, profileName) ==
    LET sanitized == ReplaceSlashes(branch)
    IN IF profileName = "" \/ profileName = "default"
       THEN projectRoot \o <<"-">> \o sanitized
       ELSE projectRoot \o <<"-">> \o ProfileChars(profileName) \o <<"-">> \o sanitized

SafeChars == {"a", "b", "c", "d", "e", "f", "p", "q", "t", "v", ".", "_", "-"}

\* sed 's|/|--|g; s|[^a-zA-Z0-9._-]|_|g'   and the same two replaces in worktree-gc
RECURSIVE _sanitize_branch(_)
_sanitize_branch(s) ==
    IF s = <<>> THEN <<>>
    ELSE (IF Head(s) = "/" THEN <<"-", "-">>
          ELSE IF Head(s) \in SafeChars THEN <<Head(s)>> ELSE <<"_">>)
         \o _sanitize_branch(Tail(s))

_worktree_path_for(projectRoot, branch) == projectRoot \o <<"-">> \o _sanitize_branch(branch)

StartsWith(s, prefix) ==
    Len(prefix) <= Len(s) /\ SubSeq(s, 1, Len(prefix)) = prefix

EndsWith(s, suffix) ==
    Len(suffix) <= Len(s) /\ SubSeq(s, Len(s) - Len(suffix) + 1, Len(s)) = suffix

Profiles == {"default", "dev", "qa"}

\* readdirSync lists the profile directories in name order
ProfileOrder == <<"default", "dev", "qa">>

Branches == {BrA, BrB, BrC}

AllPaths == {resolveWorktreePath(Root, b, p) : b \in Branches, p \in Profiles}

SharedDirs == {"hooks", "tools"}

(***************************************************************************)
(* Crew configs (.crew-config.json)                                        *)
(***************************************************************************)
Mate(n, b, w, r) == [name |-> n, branch |-> b, worktree |-> w, role |-> r]

\* nested: the team object itself carries a member `team` ({name, teammates});
\* stale: stale_after_hours, NoTime when the key is absent
Team(n, mates, nested, stale) ==
    [name |-> n, teammates |-> mates, nested |-> nested, stale |-> stale]

NoTeam == Team("", <<>>, FALSE, NoTime)

\* Scenario 4 of the specification: profile dev = alice(feat/a, developer), bob(feat/b, reviewer)
CfgScenario ==
    [keyOrder |-> <<"profiles", "project">>,
     profileOrder |-> <<"dev">>,
     profiles |-> [p \in {"dev"} |->
                     Team("devteam", <<Mate("alice", BrA, "absent", "developer"),
                                       Mate("bob", BrB, "absent", "reviewer")>>, FALSE, NoTime)],
     team |-> NoTeam, default |-> "", project |-> "main", stale |-> NoTime]

CfgWork ==
    [keyOrder |-> <<"profiles", "project">>,
     profileOrder |-> <<"dev", "qa">>,
     profiles |-> [p \in {"dev", "qa"} |->
                     IF p = "dev"
                     THEN Team("devteam", <<Mate("alice", BrA, "true", "developer"),
                                            Mate("bob", BrB, "true", "reviewer")>>, TRUE, NoTime)
                     ELSE Team("qateam", <<Mate("carol", BrC, "true", "none")>>, TRUE, NoTime)],
     team |-> NoTeam, default |-> "", project |-> "main", stale |-> NoTime]

\* CfgWork with a top-level stale_after_hours of 5 and one of 1 in the profile dev
CfgWorkStale ==
    [CfgWork EXCEPT !.keyOrder = <<"profiles", "project", "stale">>, !.stale = 5,
                    !.profiles["dev"].stale = 1]

\* single-team (old) format, as the worktree manager script's crew.yaml
CfgLegacy ==
    [keyOrder |-> <<"team", "project">>,
     profileOrder |-> <<>>,
     profiles |-> [p \in {} |-> NoTeam],
     team |-> Team("crew", <<Mate("alice", BrA, "true", "developer"),
                             Mate("bob", BrB, "true", "none")>>, TRUE, NoTime),
     default |-> "", project |-> "main", stale |-> NoTime]

\* a profile as the schema describes it: no nested team member, worktree: true spelled out
CfgPlain ==
    [keyOrder |-> <<"profiles", "project">>,
     profileOrder |-> <<"dev">>,
     profiles |-> [p \in {"dev"} |->
                     Team("devteam", <<Mate("alice", BrA, "true", "developer"),
                                       Mate("bob", BrB, "true", "reviewer")>>, FALSE, NoTime)],
     team |-> NoTeam, default |-> "", project |-> "main", stale |-> NoTime]

\* two profiles that both name a teammate alice
CfgShared ==
    [keyOrder |-> <<"profiles", "project">>,
     profileOrder |-> <<"dev", "qa">>,
     profiles |-> [p \in {"dev", "qa"} |->
                     IF p = "dev"
                     THEN Team("devteam", <<Mate("alice", BrA, "true", "developer"),
                                            Mate("bob", BrB, "true", "reviewer")>>, TRUE, NoTime)
                     ELSE Team("qateam", <<Mate("alice", BrC, "true", "none")>>, TRUE, NoTime)],
     team |-> NoTeam, default |-> "", project |-> "main", stale |-> NoTime]

\* one profile with one teammate
CfgSolo ==
    [keyOrder |-> <<"profiles", "project">>,
     profileOrder |-> <<"qa">>,
     profiles |-> [p \in {"qa"} |->
                     Team("qateam", <<Mate("carol", BrC, "true", "none")>>, TRUE, NoTime)],
     team |-> NoTeam, default |-> "", project |-> "main", stale |-> NoTime]

\* CfgWork as a file that lists "project" ahead of "profiles"
CfgWorkReordered == [CfgWork EXCEPT !.keyOrder = <<"project", "profiles">>]

\* a file with both a team and a profiles section
CfgBoth ==
    [CfgWork EXCEPT !.keyOrder = <<"team", "profiles", "project">>, !.team = CfgLegacy.team]

\* a file with neither
CfgNeither ==
    [keyOrder |-> <<"project">>, profileOrder |-> <<>>, profiles |-> [p \in {} |-> NoTeam],
     team |-> NoTeam, default |-> "", project |-> "main", stale |-> NoTime]

\* a profile that lists the name alice twice
CfgTwins ==
    [CfgSolo EXCEPT !.profileOrder = <<"dev">>,
                    !.profiles = [p \in {"dev"} |->
                        Team("devteam", <<Mate("alice", BrA, "true", "developer"),
                                          Mate("alice", BrB, "true", "reviewer")>>, TRUE, NoTime)]]

\* a profile whose two teammates work on one branch
CfgSameBranch ==
    [CfgSolo EXCEPT !.profileOrder = <<"dev">>,
                    !.profiles = [p \in {"dev"} |->
                        Team("devteam", <<Mate("alice", BrA, "true", "developer"),
                                          Mate("bob", BrA, "true", "reviewer")>>, TRUE, NoTime)]]

\* a profile that groups its teammates under crews and has no teammates member
CfgGrouped ==
    [CfgSolo EXCEPT !.profileOrder = <<"dev">>,
                    !.profiles = [p \in {"dev"} |->
                        [name |-> "devteam", nested |-> TRUE, stale |-> NoTime,
                         crews |-> <<[name |-> "core",
                                      teammates |-> <<Mate("alice", BrA, "true", "developer"),
                                                      Mate("bob", BrB, "true", "reviewer")>>]>>]]]

\* the team of CfgLegacy as the only profile, named default, of a profiles config
CfgLegacyAsProfiles ==
    [CfgLegacy EXCEPT !.keyOrder = <<"profiles", "project">>, !.profileOrder = <<"default">>,
                      !.profiles = [p \in {"default"} |-> CfgLegacy.team], !.team = NoTeam]

\* a single team with a teammate that has no branch, and the same team as profile default
CfgNoBranch ==
    [CfgLegacy EXCEPT !.team = Team("crew", <<Mate("alice", <<>>, "true", "developer")>>,
                                    TRUE, NoTime)]

CfgNoBranchAsProfiles ==
    [CfgNoBranch EXCEPT !.keyOrder = <<"profiles", "project">>, !.profileOrder = <<"default">>,
                        !.profiles = [p \in {"default"} |-> CfgNoBranch.team], !.team = NoTeam]

\* the configurations whose teammates collide or are grouped
TeamConfigs == {CfgTwins, CfgSameBranch, CfgGrouped}

\* the files the config reader is called on
ReaderConfigs ==
    {CfgWork, CfgWorkReordered, CfgWorkStale, CfgLegacy, CfgBoth, CfgNeither,
     CfgLegacyAsProfiles, CfgNoBranch, CfgNoBranchAsProfiles}

CrewConfigs == {CfgScenario, CfgWork, CfgWorkStale}

\* the configuration of the project whose worktrees gc scans
GcConfigs == {CfgShared}

\* the configurations of the project while its teammates' hooks run
HookConfigs == {CfgWork, CfgPlain}

LegacyConfigs == {CfgLegacy}

\* JSON.stringify(configObj): the members in the order the object holds them
Stringify(cfg) == [i \in 1..Len(cfg.keyOrder) |-> <<cfg.keyOrder[i], cfg[cfg.keyOrder[i]]>>]

\* sha256(...).slice(0, 12), taken to be injective on the serialisations that occur
hashConfig(cfg) == Stringify(cfg)

NoHash == <<>>

HasProfiles(cfg) == "profiles" \in Range(cfg.keyOrder)

HasTeam(cfg) == "team" \in Range(cfg.keyOrder)

\* a member that the JSON object holds
Has(obj, key) == key \in DOMAIN obj

\* the checks of one teammates array
validateTeammates(teammates) ==
    /\ Len(teammates) > 0
    /\ \A i \in 1..Len(teammates) :
          /\ teammates[i].name # ""
          /\ teammates[i].branch # <<>>
          /\ teammates[i].role \in {"none", "developer", "reviewer", "tester", "architect"}

validateTeam(team) ==
    /\ team.name # ""
    /\ IF Has(team, "crews")
       THEN /\ Len(team.crews) > 0
            /\ \A c \in 1..Len(team.crews) :
                  /\ team.crews[c].name # ""
                  /\ validateTeammates(team.crews[c].teammates)
       ELSE /\ Has(team, "teammates")
            /\ validateTeammates(team.teammates)

\* TRUE when validateConfig returns no errors
validateConfig(cfg) ==
    IF HasProfiles(cfg)
    THEN /\ Len(cfg.profileOrder) > 0
         /\ (cfg.default # "" => cfg.default \in DOMAIN cfg.profiles)
         /\ \A p \in DOMAIN cfg.profiles : validateTeam(cfg.profiles[p])
    ELSE IF HasTeam(cfg) THEN validateTeam(cfg.team)
    ELSE FALSE

\* [ok, profile, profileName]; requestedName = "" when no CLI argument was given
resolveProfile(cfg, requestedName) ==
    IF HasTeam(cfg) /\ ~HasProfiles(cfg)
    THEN [ok |-> TRUE, profile |-> cfg.team, profileName |-> "default"]
    ELSE IF ~HasProfiles(cfg) \/ Len(cfg.profileOrder) = 0
    THEN [ok |-> FALSE, profile |-> NoTeam, profileName |-> ""]
    ELSE LET name == IF requestedName # "" THEN requestedName
                     ELSE IF cfg.default # "" THEN cfg.default
                     ELSE cfg.profileOrder[1]
         IN IF name \in DOMAIN cfg.profiles
            THEN [ok |-> TRUE, profile |-> cfg.profiles[name], profileName |-> name]
            ELSE [ok |-> FALSE, profile |-> NoTeam, profileName |-> name]

(***************************************************************************)
(* Team state (crew/lib/team-state-manager.js)                             *)
(***************************************************************************)
Names == {"alice", "bob", "carol"}

MateState(b, wp, st, ag, la) ==
    [branch |-> b, worktree_path |-> wp, status |-> st, agent_id |-> ag, last_active |-> la]

NoState ==
    [present |-> FALSE, team_name |-> "", profile_name |-> "", config_hash |-> NoHash,
     status |-> "", started_at |-> NoTime, updated_at |-> NoTime,
     teammates |-> [n \in {} |-> MateState(<<>>, NoPath, "", NoAgent, NoTime)]]

loadTeamState(states, profileName) == states[profileName]

\* saveTeamState stamps updated_at and writes the file
saveTeamState(states, state, profileName, t) ==
    [states EXCEPT ![profileName] = [state EXCEPT !.present = TRUE, !.updated_at = t]]

isStale(teammate, maxAge, t) ==
    IF teammate.last_active = NoTime THEN TRUE
    ELSE (t - teammate.last_active) > maxAge

isConfigChanged(currentHash, stateHash) == currentHash # stateHash

\* update: the members the caller passes, here agent_id, status and last_active
updateTeammateState(states, name, update, profileName, t) ==
    LET state == IF states[profileName].present THEN states[profileName]
                 ELSE [NoState EXCEPT !.present = TRUE]
        old == IF name \in DOMAIN state.teammates THEN state.teammates[name]
               ELSE MateState(<<>>, NoPath, "", NoAgent, NoTime)
        new == [old EXCEPT !.agent_id = update.agent_id, !.status = update.status,
                           !.last_active = update.last_active]
        mates == [n \in DOMAIN state.teammates \cup {name} |->
                    IF n = name THEN new ELSE state.teammates[n]]
    IN saveTeamState(states, [state EXCEPT !.teammates = mates], profileName, t)

(***************************************************************************)
(* Directories                                                             *)
(***************************************************************************)
NoIdentity ==
    [present |-> FALSE, teammate_name |-> "", project_root |-> NoPath, branch |-> <<>>,
     team_name |-> "", profile_name |-> ""]

\* identity: <worktree>/crew-identity.json; claudeIdentity: <worktree>/.claude/crew-identity.json;
\* claude: "none" or "hybrid" (a real .claude/ directory); links: the symbolic links inside it
NoDir ==
    [exists |-> FALSE, worktree |-> FALSE, identity |-> NoIdentity,
     claudeIdentity |-> NoIdentity, claude |-> "none", links |-> {}]

\* git worktree add
GitWorktreeAdd(d, path) ==
    [d EXCEPT ![path] = [NoDir EXCEPT !.exists = TRUE, !.worktree = TRUE]]

\* `git worktree remove <path> --force` run in directory cwd: fails when cwd is not inside the
\* repository or the path is not one of its worktrees; otherwise it deletes the tree, removing
\* the symbolic links themselves and never what they point to
GitCwdOk(d, cwd) == cwd = Root \/ (cwd \in DOMAIN d /\ d[cwd].exists /\ d[cwd].worktree)

GitRemoveOk(d, cwd, path) ==
    GitCwdOk(d, cwd) /\ path \in DOMAIN d /\ d[path].exists /\ d[path].worktree

GitWorktreeRemove(d, path) == [d EXCEPT ![path] = NoDir]

\* a removal that enters the links it meets
RemoveTreeFollowing(links, sh) == sh \ links

\* what is left of the source's shared entries once a tree holding these links is deleted
\* (git worktree remove --force, rm -rf): a link is unlinked, its target is not entered
RemoveTree(links, sh) == sh

\* one removal of a worktree directory: who removed it, and which symbolic links its state
\* directory still held when the removal of the directory started
Removal(path, by, links) == [path |-> path, by |-> by, links |-> links]

NoPrompt == [threw |-> FALSE, kind |-> "", stale |-> {}]

NoOp ==
    [op |-> "init", profile |-> "", ok |-> FALSE, cfg |-> NoHash, resume |-> FALSE,
     fresh |-> FALSE, cleanup |-> FALSE, fromEmpty |-> FALSE, gitFailed |-> {},
     removals |-> {}, prompt |-> NoPrompt, orphans |-> {}, prevHash |-> NoHash,
     prevAges |-> {}, mate |-> "", exit |-> 0, fault |-> "none", marker |-> NoPath,
     cwd |-> NoPath, printed |-> FALSE]

(***************************************************************************)
(* Prompt generator (crew/lib/prompt-generator.js)                         *)
(***************************************************************************)
DefaultStaleHours == 4

\* generateLeadPrompt(config, teamState, worktreePaths): it destructures `team` out of its
\* first argument and ignores a fourth and fifth argument.  threw: the TypeError raised by
\* `team.name` when the first argument has no member `team`.
generateLeadPrompt(config, teamState, t) ==
    LET canResume == /\ teamState.present
                     /\ ~isConfigChanged(teamState.config_hash, teamState.config_hash)
                     /\ \E n \in DOMAIN teamState.teammates :
                           ~isStale(teamState.teammates[n], DefaultStaleHours, t)
    IN IF ~config.nested THEN [threw |-> TRUE, kind |-> "", stale |-> {}]
       ELSE IF canResume
       THEN [threw |-> FALSE, kind |-> "resume",
             stale |-> {config.teammates[i].name : i \in
                          {j \in 1..Len(config.teammates) :
                             \/ config.teammates[j].name \notin DOMAIN teamState.teammates
                             \/ isStale(teamState.teammates[config.teammates[j].name],
                                        DefaultStaleHours, t)}}]
       ELSE [threw |-> FALSE, kind |-> "fresh", stale |-> {}]

(***************************************************************************)
(* cck crew start (bin/cck.js crewStart)                                   *)
(***************************************************************************)
NoPaths == [n \in Names |-> NoPath]

\* a threshold that looks at the top-level stale_after_hours first
StaleAfterHoursTopLevelFirst(profile, cfg) ==
    IF cfg.stale # NoTime THEN cfg.stale
    ELSE IF profile.stale # NoTime THEN profile.stale
    ELSE DefaultStaleHours

\* step 4: profile.stale_after_hours ?? config.stale_after_hours ?? 4
StaleAfterHours(profile, cfg) ==
    IF profile.stale # NoTime THEN profile.stale
    ELSE IF cfg.stale # NoTime THEN cfg.stale
    ELSE DefaultStaleHours

\* step 5: the resume decision
ShouldResume(fresh, existingState, configHash, staleAfterHours, t) ==
    /\ ~fresh
    /\ existingState.present
    /\ ~isConfigChanged(configHash, existingState.config_hash)
    /\ \E n \in DOMAIN existingState.teammates :
          ~isStale(existingState.teammates[n], staleAfterHours, t)

\* step 6 for one teammate; acc = [d |-> directories, wp |-> worktreePaths]
ProvisionMate(mate, profileName, teamName, gitFails, t, acc) ==
    IF mate.worktree # "true" THEN acc
    ELSE LET wtPath == resolveWorktreePath(Root, mate.branch, profileName)
             wp1 == [acc.wp EXCEPT ![mate.name] = wtPath]
             identity == [present |-> TRUE, teammate_name |-> mate.name, project_root |-> Root,
                          branch |-> mate.branch, team_name |-> teamName,
                          profile_name |-> profileName]
         IN IF acc.d[wtPath].exists
            THEN [d |-> [acc.d EXCEPT ![wtPath].identity = identity], wp |-> wp1]
            ELSE IF mate.name \in gitFails
            THEN [d |-> acc.d, wp |-> wp1]
            ELSE [d |-> [GitWorktreeAdd(acc.d, wtPath) EXCEPT ![wtPath].identity = identity],
                  wp |-> wp1]

RECURSIVE ProvisionAll(_, _, _, _, _, _, _)
ProvisionAll(mates, i, profileName, teamName, gitFails, t, acc) ==
    IF i > Len(mates) THEN acc
    ELSE ProvisionAll(mates, i + 1, profileName, teamName, gitFails, t,
                      ProvisionMate(mates[i], profileName, teamName, gitFails, t, acc))

\* step 7: the entries written to worktrees.json
RECURSIVE WorktreeEntries(_, _)
WorktreeEntries(mates, wp) ==
    IF mates = <<>> THEN <<>>
    ELSE LET m == Head(mates)
         IN (IF m.worktree = "true" /\ wp[m.name] # NoPath
             THEN <<[name |-> m.name, branch |-> m.branch, path |-> wp[m.name]]>>
             ELSE <<>>) \o WorktreeEntries(Tail(mates), wp)

\* a start that carries a teammate's fields over whether or not it resumes
NewMateStateAlwaysCarry(mate, existingState, shouldResume, wp) ==
    LET hasPrev == existingState.present /\ mate.name \in DOMAIN existingState.teammates
    IN MateState(mate.branch, wp[mate.name],
                 IF hasPrev THEN existingState.teammates[mate.name].status ELSE "pending",
                 IF hasPrev THEN existingState.teammates[mate.name].agent_id ELSE NoAgent,
                 IF hasPrev THEN existingState.teammates[mate.name].last_active ELSE NoTime)

\* step 9: newState.teammates
NewMateState(mate, existingState, shouldResume, wp) ==
    LET hasPrev == existingState.present /\ mate.name \in DOMAIN existingState.teammates
        carry == shouldResume /\ hasPrev
    IN MateState(mate.branch, wp[mate.name],
                 IF carry THEN existingState.teammates[mate.name].status ELSE "pending",
                 IF carry THEN existingState.teammates[mate.name].agent_id ELSE NoAgent,
                 IF carry THEN existingState.teammates[mate.name].last_active ELSE NoTime)

NewTeammates(mates, existingState, shouldResume, wp) ==
    [n \in {mates[i].name : i \in 1..Len(mates)} |->
        LET last == CHOOSE i \in 1..Len(mates) :
                       /\ mates[i].name = n
                       /\ \A j \in 1..Len(mates) : mates[j].name = n => j <= i
        IN NewMateState(mates[last], existingState, shouldResume, wp)]

\* profile.teammates.map(resolveRole): a TypeError when the profile has no teammates member
TeammatesOf(profile) == IF Has(profile, "teammates") THEN profile.teammates ELSE <<>>

\* team = { ...profile, teammates: resolvedTeammates }
ResolvedTeam(profile) ==
    [name |-> profile.name, teammates |-> TeammatesOf(profile), nested |-> profile.nested,
     stale |-> profile.stale]

IsEmptyState ==
    /\ \A p \in Profiles : ~teamStates[p].present
    /\ ~registry.present
    /\ \A x \in AllPaths : ~dirs[x].exists

crewStart(cfg, profileArg, fresh, gitFails) ==
    \E rp \in {resolveProfile(cfg, profileArg)}, configHash \in {hashConfig(cfg)} :
    \E existingState \in {loadTeamState(teamStates, rp.profileName)} :
    \E shouldResume \in {ShouldResume(fresh, existingState, configHash,
                                      StaleAfterHours(rp.profile, cfg), now)} :
    \E prov \in {ProvisionAll(TeammatesOf(rp.profile), 1, rp.profileName, rp.profile.name,
                              gitFails, now, [d |-> dirs, wp |-> NoPaths])} :
    \E prompt \in {generateLeadPrompt(ResolvedTeam(rp.profile),
                                      IF shouldResume THEN existingState ELSE NoState, now)} :
        LET profile == ResolvedTeam(rp.profile)
            profileName == rp.profileName
            entries == WorktreeEntries(profile.teammates, prov.wp)
            newState ==
                [present |-> TRUE, team_name |-> profile.name, profile_name |-> profileName,
                 config_hash |-> configHash, status |-> "active",
                 started_at |-> IF shouldResume /\ existingState.started_at # NoTime
                                THEN existingState.started_at ELSE now,
                 updated_at |-> now,
                 teammates |-> NewTeammates(profile.teammates, existingState, shouldResume,
                                            prov.wp)]
            op == [NoOp EXCEPT !.op = "start", !.profile = profileName, !.cfg = configHash,
                               !.fresh = fresh, !.fromEmpty = IsEmptyState,
                               !.prevHash = existingState.config_hash,
                               !.prevAges = {now - existingState.teammates[n].last_active :
                                               n \in {m \in DOMAIN existingState.teammates :
                                                  existingState.teammates[m].last_active
                                                     # NoTime}},
                               !.gitFailed = gitFails \cap
                                   {profile.teammates[i].name : i \in 1..Len(profile.teammates)}]
        IN IF ~validateConfig(cfg) \/ ~rp.ok \/ ~Has(rp.profile, "teammates")
           THEN \* process.exit(1), or the TypeError of profile.teammates.map, before
                \* anything is written
                /\ lastOp' = [op EXCEPT !.ok = FALSE]
                /\ UNCHANGED <<teamStates, registry, dirs, ended>>
           ELSE /\ dirs' = prov.d
                /\ registry' = [present |-> TRUE, worktrees |-> entries]
                /\ IF prompt.threw
                   THEN \* the TypeError leaves crewStart before step 9
                        /\ lastOp' = [op EXCEPT !.ok = FALSE, !.prompt = prompt]
                        /\ UNCHANGED <<teamStates, ended>>
                   ELSE /\ teamStates' = saveTeamState(teamStates, newState, profileName, now)
                        /\ ended' = {e \in ended : e.profile # profileName}
                        /\ lastOp' = [op EXCEPT !.ok = TRUE, !.resume = shouldResume,
                                                !.prompt = prompt]

\* the [profile] argument of start and stop; "" when it is left out
ProfileArgs == {"", "dev", "qa"}

\* the teammates whose `git worktree add` fails in one run
GitFailures == {{}, {"alice"}}

CrewStart(cfgs) ==
    /\ Step
    /\ \E cfg \in cfgs, profileArg \in ProfileArgs, fresh \in BOOLEAN, gitFails \in GitFailures :
           /\ crewStart(cfg, profileArg, fresh, gitFails)
           /\ UNCHANGED <<calls, repo, mergeOut, now, localRegistry, shared, hooks, store, clock,
                          seen, lastOut>>

(***************************************************************************)
(* cck crew stop (bin/cck.js crewStop)                                     *)
(***************************************************************************)
\* a stop that marks the team and leaves its teammates as they were
MarkStoppedTeamOnly(state) == [state EXCEPT !.status = "stopped"]

\* every teammate's status, then the team's, set to stopped
MarkStopped(state) ==
    [state EXCEPT !.status = "stopped",
                  !.teammates = [n \in DOMAIN state.teammates |->
                                   [state.teammates[n] EXCEPT !.status = "stopped"]]]

crewStop(cfg, profileArg, cleanup) ==
    \E rp \in {resolveProfile(cfg, "")} :
    \E pName \in {IF profileArg # "" THEN profileArg
                  ELSE IF rp.ok THEN rp.profileName ELSE "default"} :
    \E state \in {loadTeamState(teamStates, pName)} :
    LET stopped == MarkStopped(state)
        paths == {state.teammates[n].worktree_path : n \in DOMAIN state.teammates}
        present == {x \in paths : x # NoPath /\ dirs[x].exists}
        removed == {x \in present : GitRemoveOk(dirs, Root, x)}
        op == [NoOp EXCEPT !.op = "stop", !.profile = pName, !.cleanup = cleanup]
    IN IF ~state.present
       THEN /\ lastOp' = [op EXCEPT !.ok = FALSE]
            /\ UNCHANGED <<teamStates, dirs, shared>>
       ELSE /\ teamStates' = saveTeamState(teamStates, stopped, pName, now)
            /\ IF cleanup
               THEN /\ dirs' = [x \in AllPaths |->
                                  IF x \in removed THEN GitWorktreeRemove(dirs, x)[x] ELSE dirs[x]]
                    /\ shared' = RemoveTree(UNION {dirs[x].links : x \in removed}, shared)
                    /\ lastOp' = [op EXCEPT !.ok = (removed = present),
                                            !.removals = {Removal(x, "stop", dirs[x].links) :
                                                             x \in removed}]
               ELSE /\ lastOp' = [op EXCEPT !.ok = TRUE]
                    /\ UNCHANGED <<dirs, shared>>

CrewStop(cfgs) ==
    /\ Step
    /\ \E cfg \in cfgs, profileArg \in ProfileArgs, cleanup \in BOOLEAN :
           /\ crewStop(cfg, profileArg, cleanup)
           /\ UNCHANGED <<calls, repo, mergeOut, now, registry, localRegistry, hooks, ended,
                          store, clock, seen, lastOut>>

(***************************************************************************)
(* Crew identity (hooks/lib/crew-detect.js getCrewIdentity)                *)
(***************************************************************************)
\* crew-identity.json at the directory's root, else the one under its .claude/
IdentityAt(d, path) ==
    IF path \notin DOMAIN d \/ ~d[path].exists THEN NoIdentity
    ELSE IF d[path].identity.present THEN d[path].identity
    ELSE IF d[path].claude = "hybrid" /\ d[path].claudeIdentity.present
    THEN d[path].claudeIdentity
    ELSE NoIdentity

\* strategy 3a: the first entry, in registry order, whose path the hint starts with and
\* whose identity file exists
RECURSIVE HintMatch(_, _, _)
HintMatch(worktrees, filePath, d) ==
    IF worktrees = <<>> THEN NoIdentity
    ELSE IF StartsWith(filePath, Head(worktrees).path)
            /\ IdentityAt(d, Head(worktrees).path).present
    THEN IdentityAt(d, Head(worktrees).path)
    ELSE HintMatch(Tail(worktrees), filePath, d)

\* strategies 3 and 4 on one registry file
RegistryIdentity(reg, filePath, d) ==
    IF ~reg.present \/ Len(reg.worktrees) = 0 THEN NoIdentity
    ELSE IF filePath # NoPath /\ HintMatch(reg.worktrees, filePath, d).present
    THEN HintMatch(reg.worktrees, filePath, d)
    ELSE IF Len(reg.worktrees) = 1 THEN IdentityAt(d, reg.worktrees[1].path)
    ELSE NoIdentity

NoRegistry == [present |-> FALSE, worktrees |-> <<>>]

\* cwd: the hook's working directory; envWorktree: CREW_WORKTREE_PATH or NoPath;
\* filePath: the hint or NoPath.  The legacy global registry is taken to be absent.
getCrewIdentity(cwd, envWorktree, filePath, reg, localReg, d) ==
    IF IdentityAt(d, cwd).present THEN IdentityAt(d, cwd)
    ELSE IF envWorktree # NoPath /\ IdentityAt(d, envWorktree).present
    THEN IdentityAt(d, envWorktree)
    ELSE IF RegistryIdentity(reg, filePath, d).present THEN RegistryIdentity(reg, filePath, d)
    ELSE RegistryIdentity(IF cwd = Root THEN localReg ELSE NoRegistry, filePath, d)

(***************************************************************************)
(* Record store (blink-query) and the namespaces of the hooks              *)
(***************************************************************************)
\* a second project, with no crew
Root2 == <<"/", "q">>

FileA == <<"/", "p", "/", "s", "r", "c", "/", "a", ".", "t", "s">>

RECURSIVE Join(_)
Join(chars) == IF chars = <<>> THEN "" ELSE Head(chars) \o Join(Tail(chars))

\* path.basename
RECURSIVE basename(_)
basename(path) ==
    IF path = <<>> THEN <<>>
    ELSE IF path[Len(path)] = "/" THEN <<>>
    ELSE Append(basename(SubSeq(path, 1, Len(path) - 1)), path[Len(path)])

\* the files the sessions touch
Files == {FileA}

PathString == [f \in Files \cup {NoPath} |-> Join(f)]

BaseName == [f \in Files \cup {NoPath} |-> Join(basename(f))]

BranchString == [b \in Branches \cup {NoPath} |-> Join(b)]

\* the worktrees of a project share its origin remote, hence its hash; when
\* `git remote get-url origin` fails the working directory is hashed instead
getProjectHash(cwd, git) ==
    IF ~git THEN "cwd:" \o Join(cwd) ELSE IF cwd = Root2 THEN "P2" ELSE "P1"

\* a namespace is the sequence of its "/"-separated segments
crewNamespace(base, crewId, projectHash) ==
    <<"proj", projectHash>>
       \o (IF crewId.present THEN <<"crew", crewId.teammate_name>> ELSE <<>>)
       \o base

\* namespace.includes(segs.join("/"))
Includes(ns, segs) ==
    \E i \in 0..(Len(ns) - Len(segs)) : SubSeq(ns, i + 1, i + Len(segs)) = segs

\* namespace.includes("crew/")
IncludesCrew(ns) == \E i \in 1..(Len(ns) - 1) : ns[i] = "crew"

NoContent ==
    [sessionId |-> "", teammateName |-> "", branch |-> "", filesCount |-> -1,
     subagentsCount |-> -1, generatedAt |-> 0, action |-> "", filePath |-> "",
     agentType |-> ""]

\* title and summary are sequences of words
Rec(ns, title, summary, type, content, tags, t) ==
    [namespace |-> ns, title |-> title, summary |-> summary, type |-> type,
     content |-> content, tags |-> tags, updated_at |-> t, expired |-> FALSE]

\* save: upsert by (namespace, title)
save(st, rec) ==
    {r \in st : ~(r.namespace = rec.namespace /\ r.title = rec.title)} \cup {rec}

\* list: the direct children of a namespace
list(st, ns) == {r \in st : r.namespace = ns}

\* ordering 'recent'
RECURSIVE SortRecent(_)
SortRecent(recs) ==
    IF recs = {} THEN <<>>
    ELSE LET m == CHOOSE r \in recs : \A q \in recs : q.updated_at <= r.updated_at
         IN <<m>> \o SortRecent(recs \ {m})

\* search: keyword match over title and summary
search(st, term) == {r \in st : term \in Range(r.title) \cup Range(r.summary)}

\* DELETE FROM records WHERE updated_at < cutoff
prune(st) == {r \in st : ~r.expired}

(***************************************************************************)
(* Hooks on the record store                                               *)
(***************************************************************************)
\* what can be wrong around one hook run: the stdin payload is not JSON, the record store
\* cannot be opened, team-state.json is not JSON, git is not available
Faults == {"none", "bad-stdin", "no-store", "corrupt-state", "no-git"}

\* the directory that holds the .cck-disable marker, NoPath when there is none
MarkerDirs == {NoPath, <<"/">>, Root}

\* no .crew-config.json in the working directory
NoConfig ==
    [keyOrder |-> <<>>, profileOrder |-> <<>>, profiles |-> [p \in {} |-> NoTeam],
     team |-> NoTeam, default |-> "", project |-> "", stale |-> NoTime]

\* the surroundings of one hook run: a fault, a marker, the .crew-config.json of the
\* working directory, a .claude/.super-claude-version left by version 2
NoEnv == [fault |-> "none", marker |-> NoPath, config |-> NoConfig, v2 |-> FALSE]

HookEnvs ==
    {[NoEnv EXCEPT !.fault = f] : f \in Faults}
       \cup {[NoEnv EXCEPT !.marker = m] : m \in MarkerDirs}
       \cup {[NoEnv EXCEPT !.config = CfgSolo, !.fault = f] : f \in {"none", "corrupt-state"}}
       \cup {[NoEnv EXCEPT !.v2 = TRUE]}

\* path.dirname of an absolute path
dirname(path) ==
    LET k == CHOOSE i \in 1..Len(path) :
                 path[i] = "/" /\ \A j \in (i + 1)..Len(path) : path[j] # "/"
    IN IF k = 1 THEN <<"/">> ELSE SubSeq(path, 1, k - 1)

\* isDisabled: the loop `while (dir !== '/')` from the working directory upwards
RECURSIVE isDisabled(_, _)
isDisabled(dir, marker) ==
    IF dir = <<"/">> THEN FALSE
    ELSE IF dir = marker THEN TRUE
    ELSE isDisabled(dirname(dir), marker)

\* main with the parse of stdin ahead of its try block
HandlingParseOutsideTry(hook, fault) ==
    CASE fault = "bad-stdin" -> "uncaught"
      [] fault = "no-store" -> "outer"
      [] fault = "corrupt-state" ->
            IF hook \in {"session-end", "session-start"} THEN "inner" ELSE "none"
      [] fault = "no-git" -> "inner"
      [] OTHER -> "none"

\* main's try block under a fault: "outer" when the exception reaches main's catch block,
\* "inner" when a try around the failing step swallows it, "none" when nothing is thrown
Handling(hook, fault) ==
    CASE fault = "bad-stdin" -> "outer"
      [] fault = "no-store" -> "outer"
      [] fault = "corrupt-state" ->
            IF hook \in {"session-end", "session-start"} THEN "inner" ELSE "none"
      [] fault = "no-git" -> "inner"
      [] OTHER -> "none"

\* the exit code of the hook process: main's catch block ends in process.exit(0); an
\* exception that nothing catches would end node with 1
ExitOf(handling) == IF handling = "uncaught" THEN 1 ELSE 0

\* does the run get past the disable check and the opening of the store
Proceeds(hook, cwd, env) ==
    ~isDisabled(cwd, env.marker) /\ Handling(hook, env.fault) # "outer"

\* the session as the hook sees it: without git there is no current branch, and the
\* project hash is taken from the working directory
InEnv(ctx, env) ==
    IF env.fault = "no-git" THEN [ctx EXCEPT !.branch = "", !.git = FALSE] ELSE ctx

HashOf(ctx) == getProjectHash(ctx.cwd, ctx.git)

\* a session: its working directory, the branch checked out there, the host's session id
Contexts ==
    {[cwd |-> Root, branch |-> "main", sid |-> "S1", git |-> TRUE],
     [cwd |-> Root, branch |-> "feat/x", sid |-> "S2", git |-> TRUE],
     [cwd |-> Root2, branch |-> "main", sid |-> "S3", git |-> TRUE]}
       \cup {[cwd |-> x, branch |-> BranchString[dirs[x].identity.branch], sid |-> "S4",
              git |-> TRUE] :
               x \in {y \in AllPaths : dirs[y].exists /\ dirs[y].identity.present}}

SessionIds == {"S1", "S2", "S3", "S4"}

\* the lead's session in the project root and the teammates' sessions in their worktrees
CrewSessionIds == {"S1", "S4"}

Sessions(sids) == {ctx \in Contexts : ctx.sid \in sids}

\* the crew registry of the hook's project
RegistryOf(ctx) == IF HashOf(ctx) = "P1" THEN registry ELSE NoRegistry

CrewIdOf(ctx, filePath) ==
    getCrewIdentity(ctx.cwd, NoPath, filePath, RegistryOf(ctx), localRegistry, dirs)

\* one hook run: which hook, in which session, on which tool use
Run(hook, ctx, toolName, filePath) ==
    [hook |-> hook, cwd |-> ctx.cwd, sid |-> ctx.sid, branch |-> ctx.branch,
     tool |-> toolName, file |-> filePath]

\* what is seen of one hook run from outside: its exit code, and whether it got to its work
HookOp(hook, ctx, env) ==
    [NoOp EXCEPT !.op = hook, !.ok = Proceeds(hook, ctx.cwd, env),
                 !.exit = ExitOf(Handling(hook, env.fault)),
                 !.fault = env.fault, !.marker = env.marker, !.cwd = ctx.cwd,
                 \* session-start prints its response; the discoveries that post-tool-use
                 \* would print name the file read, and none recorded here does
                 !.printed = hook = "session-start" /\ Proceeds(hook, ctx.cwd, env)]

MateTags(crewId) == IF crewId.present THEN {crewId.teammate_name} ELSE {}

\* post-tool-use.js, Read/Write/Edit
FileRecord(ctx, toolName, filePath, crewId, t) ==
    LET action == IF toolName = "Read" THEN "read"
                  ELSE IF toolName = "Edit" THEN "edit" ELSE "write"
    IN Rec(crewNamespace(<<"session", ctx.sid, "files">>, crewId, HashOf(ctx)),
           <<BaseName[filePath]>>,
           <<action \o ":", PathString[filePath]>>,
           "META",
           [NoContent EXCEPT !.filePath = PathString[filePath], !.action = action],
           {"file", action, ctx.sid} \cup MateTags(crewId), t)

\* post-tool-use.js, Task
SubagentRecord(ctx, agentType, crewId, t) ==
    Rec(crewNamespace(<<"session", ctx.sid, "subagents">>, crewId, HashOf(ctx)),
        <<agentType, "-", ToString(t)>>,
        <<"prompt">>,
        "SUMMARY",
        [NoContent EXCEPT !.agentType = agentType],
        {"subagent", agentType, ctx.sid} \cup MateTags(crewId), t)

\* post-tool-use.js, the first finding of a specialist's result, in crew mode
DiscoveryRecord(ctx, agentType, crewId, t) ==
    Rec(crewNamespace(<<"_shared", "discoveries">>, crewId, HashOf(ctx)),
        <<agentType \o ":", "finding">>,
        <<"finding">>,
        "SUMMARY",
        [NoContent EXCEPT !.agentType = agentType, !.teammateName = crewId.teammate_name],
        {"discovery", "crew-shared", agentType, crewId.teammate_name}, t)

Tools == {"Read", "Edit", "Task"}

\* post-tool-use.js main; the surfacing of related discoveries only prints
PostToolUse(sids, envs) ==
    /\ Step
    /\ \E session \in Sessions(sids), env \in envs, toolName \in Tools :
       \E ctx \in {InEnv(session, env)} :
       \E filePath \in (IF toolName = "Task" THEN {NoPath} ELSE Files) :
       \E crewId \in {CrewIdOf(ctx, filePath)} :
           LET agentType == "error-detective"
               st1 == IF toolName \in {"Read", "Write", "Edit"} /\ filePath # NoPath
                      THEN save(store, FileRecord(ctx, toolName, filePath, crewId, clock))
                      ELSE store
               st2 == IF toolName = "Task"
                      THEN save(st1, SubagentRecord(ctx, agentType, crewId, clock))
                      ELSE st1
               st3 == IF toolName = "Task" /\ crewId.present
                      THEN save(st2, DiscoveryRecord(ctx, agentType, crewId, clock))
                      ELSE st2
           IN /\ IF Proceeds("post-tool-use", ctx.cwd, env)
                 THEN /\ store' = st3
                      /\ clock' = clock + 1
                      /\ seen' = Append(seen, Run("post-tool-use", ctx, toolName, filePath))
                 ELSE UNCHANGED <<store, clock, seen>>
              /\ lastOp' = HookOp("post-tool-use", ctx, env)
              /\ UNCHANGED <<calls, repo, mergeOut, now, teamStates, registry, localRegistry,
                             dirs, shared, hooks, ended, lastOut>>

\* handoff-generator.js: what the session did, from its files and subagents namespaces
RECURSIVE FileLines(_)
FileLines(recs) ==
    IF recs = <<>> THEN <<>>
    ELSE <<Head(recs).content.action, Head(recs).content.filePath>> \o FileLines(Tail(recs))

generateHandoff(st, sessionId, crewId, projectHash) ==
    LET fileRecords == list(st, crewNamespace(<<"session", sessionId, "files">>, crewId,
                                              projectHash))
        agentRecords == list(st, crewNamespace(<<"session", sessionId, "subagents">>, crewId,
                                               projectHash))
    IN FileLines(SortRecent(fileRecords))
         \o <<"Files touched:", ToString(Cardinality(fileRecords)),
              "Agents invoked:", ToString(Cardinality(agentRecords))>>

\* the pre-compact hook
HandoffRecord(ctx, crewId, st, t) ==
    Rec(crewNamespace(<<"session", ctx.sid, "handoff">>, crewId, HashOf(ctx)),
        <<"Pre-compact", "handoff", ctx.sid>>,
        generateHandoff(st, ctx.sid, crewId, HashOf(ctx)),
        "SUMMARY",
        [NoContent EXCEPT !.sessionId = ctx.sid,
                          !.teammateName = IF crewId.present THEN crewId.teammate_name ELSE "",
                          !.branch = ctx.branch, !.generatedAt = t],
        {"handoff", "pre-compact", ctx.sid} \cup MateTags(crewId), t)

PreCompact(sids, envs) ==
    /\ Step
    /\ \E session \in Sessions(sids), env \in envs :
       \E ctx \in {InEnv(session, env)} :
       \E crewId \in {CrewIdOf(ctx, NoPath)} :
       \E rec \in {HandoffRecord(ctx, crewId, store, clock)} :
              /\ IF Proceeds("pre-compact", ctx.cwd, env)
                 THEN /\ store' = save(store, rec)
                      /\ clock' = clock + 1
                      /\ seen' = Append(seen, Run("pre-compact", ctx, "", NoPath))
                 ELSE UNCHANGED <<store, clock, seen>>
              /\ lastOp' = HookOp("pre-compact", ctx, env)
              /\ UNCHANGED <<calls, repo, mergeOut, now, teamStates, registry, localRegistry,
                             dirs, shared, hooks, ended, lastOut>>

\* the session-end hook's summary record
SessionRecord(ctx, crewId, st, t) ==
    LET projectHash == HashOf(ctx)
        files == Cardinality(list(st, crewNamespace(<<"session", ctx.sid, "files">>, crewId,
                                                    projectHash)))
        subagents == Cardinality(list(st, crewNamespace(<<"session", ctx.sid, "subagents">>,
                                                        crewId, projectHash)))
    IN Rec(crewNamespace(<<"session">>, crewId, projectHash),
           <<"Session", ToString(t)>>,
           <<"Session", ctx.sid>> \o (IF crewId.present THEN <<crewId.teammate_name>> ELSE <<>>)
              \o <<"Files accessed:", ToString(files), "Sub-agents used:", ToString(subagents),
                   "Completed at:", ToString(t)>>,
           "META",
           [NoContent EXCEPT !.sessionId = ctx.sid,
                             !.teammateName = IF crewId.present THEN crewId.teammate_name
                                              ELSE "",
                             !.filesCount = files, !.subagentsCount = subagents],
           {"session", ctx.sid} \cup MateTags(crewId), t)

(***************************************************************************)
(* Session-end hook                                                        *)
(***************************************************************************)
HookIds == {"h1", "h2"}

IdleHook == [pc |-> "idle", name |-> "", profile |-> "", state |-> NoState, cwd |-> NoPath]

\* the summary record, then readFileSync of the profile's team-state.json
SessionEndLoad(h, sids, envs) ==
    /\ Step
    /\ \E session \in Sessions(sids), env \in envs :
       \E ctx \in {InEnv(session, env)} :
       \E crewId \in {CrewIdOf(ctx, NoPath)} :
       \E rec \in {SessionRecord(ctx, crewId, store, clock)} :
           LET profileName == IF crewId.profile_name # "" THEN crewId.profile_name ELSE "default"
               proceeds == Proceeds("session-end", ctx.cwd, env)
               \* team-state.json is there, under the directory of the project hash, and
               \* JSON.parse takes it
               loads == /\ proceeds
                        /\ crewId.present
                        /\ HashOf(ctx) = "P1"
                        /\ teamStates[profileName].present
                        /\ env.fault # "corrupt-state"
           IN /\ hooks[h].pc = "idle"
              /\ IF proceeds
                 THEN /\ store' = save(store, rec)
                      /\ clock' = clock + 1
                      /\ seen' = Append(seen, Run("session-end", ctx, "", NoPath))
                 ELSE UNCHANGED <<store, clock, seen>>
              /\ IF loads
                 THEN hooks' = [hooks EXCEPT ![h] = [pc |-> "loaded",
                                                     name |-> crewId.teammate_name,
                                                     profile |-> profileName,
                                                     state |-> teamStates[profileName],
                                                     cwd |-> ctx.cwd]]
                 ELSE UNCHANGED hooks
              /\ lastOp' = [HookOp("session-end", ctx, env) EXCEPT
                              \* with no team-state.json to read the hook is over
                              !.op = IF loads THEN "session-end-load" ELSE "session-end",
                              !.ok = FALSE,
                              !.profile = profileName,
                              !.mate = IF crewId.present THEN crewId.teammate_name ELSE ""]
              /\ UNCHANGED <<calls, repo, mergeOut, now, teamStates, registry, localRegistry,
                             dirs, shared, ended, lastOut>>

\* the update of the object that was read, and writeFileSync
SessionEndSave(h) ==
    LET name == hooks[h].name
        profileName == hooks[h].profile
        state == hooks[h].state
        updated == [state EXCEPT !.teammates[name].last_active = now,
                                 !.teammates[name].status = "idle",
                                 !.updated_at = now]
    IN /\ hooks[h].pc = "loaded"
       /\ hooks' = [hooks EXCEPT ![h] = IdleHook]
       /\ IF name \in DOMAIN state.teammates
          THEN /\ teamStates' = [teamStates EXCEPT ![profileName] = updated]
               /\ ended' = {e \in ended : ~(e.profile = profileName /\ e.name = name)}
                              \cup {[profile |-> profileName, name |-> name, at |-> now]}
               /\ lastOp' = [NoOp EXCEPT !.op = "session-end", !.profile = profileName,
                                         !.mate = name, !.ok = TRUE, !.cwd = hooks[h].cwd]
          ELSE /\ lastOp' = [NoOp EXCEPT !.op = "session-end", !.profile = profileName,
                                         !.mate = name, !.cwd = hooks[h].cwd]
               /\ UNCHANGED <<teamStates, ended>>
       /\ UNCHANGED <<calls, repo, mergeOut, ops, now, registry, localRegistry, dirs, shared,
                      store, clock, seen, lastOut>>

\* a caller of the exported updateTeammateState recording an agent at work on a teammate
UpdateTeammateState ==
    /\ Step
    /\ \E p \in Profiles, ag \in {"agent-1"} :
           /\ teamStates[p].present
           /\ \E n \in DOMAIN teamStates[p].teammates :
                 /\ teamStates' =
                       updateTeammateState(teamStates, n,
                                           [agent_id |-> ag, status |-> "active",
                                            last_active |-> now], p, now)
           /\ lastOp' = [NoOp EXCEPT !.op = "update", !.profile = p]
           /\ UNCHANGED <<calls, repo, mergeOut, now, registry, localRegistry, dirs, shared,
                          hooks, ended, store, clock, seen, lastOut>>

TickSteps == {1, 5}

Tick ==
    /\ Step
    /\ \E d \in TickSteps :
           /\ now + d <= MaxTime
           /\ now' = now + d
           /\ lastOp' = [NoOp EXCEPT !.op = "tick"]
           /\ UNCHANGED <<calls, repo, mergeOut, teamStates, registry, localRegistry, dirs,
                          shared, hooks, ended, store, clock, seen, lastOut>>

(***************************************************************************)
(* Worktree GC (crew/lib/worktree-gc.js)                                   *)
(***************************************************************************)
NoMate == [found |-> FALSE, status |-> "", last_active |-> NoTime, teamStatus |-> "",
           teamUpdatedAt |-> NoTime, profileName |-> ""]

\* the first team state, in directory order, that has a teammate of that name
RECURSIVE findTeammateInStates(_, _, _)
findTeammateInStates(states, order, name) ==
    IF order = <<>> THEN NoMate
    ELSE LET st == states[Head(order)]
         IN IF st.present /\ name \in DOMAIN st.teammates
            THEN [found |-> TRUE, status |-> st.teammates[name].status,
                  last_active |-> st.teammates[name].last_active,
                  teamStatus |-> st.status, teamUpdatedAt |-> st.updated_at,
                  profileName |-> Head(order)]
            ELSE findTeammateInStates(states, Tail(order), name)

OrphanReason(worktree, states, d, staleAfterHours, t) ==
    LET mate == findTeammateInStates(states, ProfileOrder, worktree.name)
        lastActive == IF mate.found /\ mate.last_active # NoTime THEN mate.last_active
                      ELSE IF mate.found THEN mate.teamUpdatedAt ELSE NoTime
        stale == lastActive # NoTime /\ (t - lastActive) > staleAfterHours
    IN IF ~d[worktree.path].exists THEN "directory-missing"
       ELSE IF mate.found /\ mate.teamStatus = "stopped" THEN "team-stopped"
       ELSE IF mate.found /\ mate.status = "stopped" THEN "teammate-stopped"
       ELSE IF stale THEN "stale"
       ELSE ""

\* the orphans, in registry order
RECURSIVE OrphansOf(_, _, _, _, _)
OrphansOf(worktrees, states, d, staleAfterHours, t) ==
    IF worktrees = <<>> THEN <<>>
    ELSE LET w == Head(worktrees)
             reason == OrphanReason(w, states, d, staleAfterHours, t)
         IN (IF reason # ""
             THEN <<[name |-> w.name, branch |-> w.branch, path |-> w.path,
                     reason |-> reason, exists |-> d[w.path].exists]>>
             ELSE <<>>) \o OrphansOf(Tail(worktrees), states, d, staleAfterHours, t)

findOrphans(reg, states, d, staleAfterHours, t) ==
    IF ~reg.present THEN <<>> ELSE OrphansOf(reg.worktrees, states, d, staleAfterHours, t)

\* strips "-<sanitized branch>" from the path; the walk up the parent directories finds no
\* repository above a project that sits directly under the filesystem root
inferProjectRoot(worktreePath, branch) ==
    LET suffix == <<"-">> \o _sanitize_branch(branch)
    IN IF EndsWith(worktreePath, suffix)
       THEN SubSeq(worktreePath, 1, Len(worktreePath) - Len(suffix))
       ELSE NoPath

\* cleanup(orphans, {projectRoot}); acc = [d |-> directories, shared, removals]
RECURSIVE cleanup(_, _, _)
cleanup(orphans, projectRoot, acc) ==
    IF orphans = <<>> THEN acc
    ELSE LET o == Head(orphans)
             root == IF projectRoot # NoPath THEN projectRoot
                     ELSE inferProjectRoot(o.path, o.branch)
         IN IF o.exists /\ root # NoPath /\ GitRemoveOk(acc.d, root, o.path)
            THEN cleanup(Tail(orphans), projectRoot,
                         [d |-> GitWorktreeRemove(acc.d, o.path),
                          shared |-> RemoveTree(acc.d[o.path].links, acc.shared),
                          removals |-> acc.removals \cup
                                         {Removal(o.path, "gc", acc.d[o.path].links)}])
            ELSE cleanup(Tail(orphans), projectRoot, acc)

\* gc: findOrphans followed by cleanup
Gc ==
    /\ Step
    /\ \E projectRoot \in {NoPath, Root} :
           \E orphans \in {findOrphans(registry, teamStates, dirs, DefaultStaleHours, now)} :
           \E res \in {cleanup(orphans, projectRoot,
                                [d |-> dirs, shared |-> shared, removals |-> {}])} :
              /\ Len(orphans) > 0
              /\ dirs' = res.d
              /\ shared' = res.shared
              /\ lastOp' = [NoOp EXCEPT !.op = "gc", !.ok = TRUE, !.removals = res.removals,
                                        !.orphans = Range(orphans)]
              /\ UNCHANGED <<calls, repo, mergeOut, now, teamStates, registry, localRegistry,
                             hooks, ended, store, clock, seen, lastOut>>

(***************************************************************************)
(* Worktree manager script (crew/lib/worktree-manager.sh)                  *)
(***************************************************************************)
\* find "$claude_target" -maxdepth 1 -type l -delete: unlinks the links, never follows them
FindDeleteLinks(entry) == [entry EXCEPT !.links = {}]

\* _cleanup_claude_dir; acc = [d |-> directories, shared |-> source entries still intact]
_cleanup_claude_dir(path, acc) ==
    IF acc.d[path].claude = "none" THEN acc
    ELSE LET unlinked == FindDeleteLinks(acc.d[path])
         IN [d |-> [acc.d EXCEPT ![path] = [unlinked EXCEPT !.claude = "none",
                                                            !.claudeIdentity = NoIdentity]],
             \* rm -rf of what the find left in place
             shared |-> RemoveTree(unlinked.links, acc.shared)]

\* _remove_worktree; acc = [d, shared, removals]
_remove_worktree(path, acc) ==
    IF ~acc.d[path].exists THEN acc
    ELSE LET c == _cleanup_claude_dir(path, [d |-> acc.d, shared |-> acc.shared])
         IN \* git worktree remove --force, or rm -rf and git worktree prune when that fails
            [d |-> GitWorktreeRemove(c.d, path),
             shared |-> RemoveTree(c.d[path].links, c.shared),
             removals |-> acc.removals \cup {Removal(path, "manager", c.d[path].links)}]

RECURSIVE RemoveAll(_, _)
RemoveAll(worktrees, acc) ==
    IF worktrees = <<>> THEN acc
    ELSE RemoveAll(Tail(worktrees), _remove_worktree(Head(worktrees).path, acc))

\* _setup_claude_dir: a real .claude/ with one link per shared directory of the source
_setup_claude_dir(entry) == [entry EXCEPT !.claude = "hybrid", !.links = SharedDirs]

\* _create_worktree and _register_worktree; acc = [d, reg]
_create_worktree(mate, gitFails, acc) ==
    LET path == _worktree_path_for(Root, mate.branch)
        usable == IF acc.d[path].exists THEN acc.d[path].worktree ELSE mate.name \notin gitFails
        d1 == IF acc.d[path].exists THEN acc.d ELSE GitWorktreeAdd(acc.d, path)
        identity == [present |-> TRUE, teammate_name |-> mate.name, project_root |-> Root,
                     branch |-> mate.branch, team_name |-> "", profile_name |-> ""]
        d2 == [d1 EXCEPT ![path] = [_setup_claude_dir(d1[path]) EXCEPT !.claudeIdentity = identity]]
        registered == \E i \in 1..Len(acc.reg.worktrees) : acc.reg.worktrees[i].name = mate.name
    IN IF mate.worktree # "true" \/ ~usable THEN acc
       ELSE [d |-> d2,
             reg |-> IF registered THEN acc.reg
                     ELSE [acc.reg EXCEPT !.worktrees =
                             Append(@, [name |-> mate.name, branch |-> mate.branch,
                                        path |-> path])]]

RECURSIVE CreateAll(_, _, _)
CreateAll(mates, gitFails, acc) ==
    IF mates = <<>> THEN acc
    ELSE CreateAll(Tail(mates), gitFails, _create_worktree(Head(mates), gitFails, acc))

\* a directory that is no worktree of the repository turns up where a teammate's worktree
\* would go: what `[[ -d "$worktree_path" ]]` and existsSync(wtPath) may meet
ForeignDir ==
    /\ Step
    /\ \E x \in {resolveWorktreePath(Root, b, "default") : b \in {BrA, BrB}} :
           /\ ~dirs[x].exists
           /\ dirs' = [dirs EXCEPT ![x] = [NoDir EXCEPT !.exists = TRUE]]
           /\ lastOp' = [NoOp EXCEPT !.op = "mkdir"]
           /\ UNCHANGED <<calls, repo, mergeOut, now, teamStates, registry, localRegistry,
                          shared, hooks, ended, store, clock, seen, lastOut>>

\* setup_worktrees: _init_registry, then one _create_worktree per teammate
setup_worktrees ==
    /\ Step
    /\ \E cfg \in LegacyConfigs, gitFails \in GitFailures :
           \E res \in {CreateAll(cfg.team.teammates, gitFails,
                                [d |-> dirs, reg |-> [present |-> TRUE, worktrees |-> <<>>]])} :
              /\ dirs' = res.d
              /\ localRegistry' = res.reg
              /\ lastOp' = [NoOp EXCEPT !.op = "setup", !.ok = TRUE]
              /\ UNCHANGED <<calls, repo, mergeOut, now, teamStates, registry, shared, hooks,
                             ended, store, clock, seen, lastOut>>

\* cleanup_worktrees: one _remove_worktree per registry line, then the registry is deleted
cleanup_worktrees ==
    /\ Step
    /\ \E res \in {RemoveAll(localRegistry.worktrees,
                             [d |-> dirs, shared |-> shared, removals |-> {}])} :
          /\ localRegistry.present
          /\ dirs' = res.d
          /\ shared' = res.shared
          /\ localRegistry' = NoRegistry
          /\ lastOp' = [NoOp EXCEPT !.op = "cleanup", !.ok = TRUE, !.removals = res.removals]
          /\ UNCHANGED <<calls, repo, mergeOut, now, teamStates, registry, hooks, ended, store,
                         clock, seen, lastOut>>

(***************************************************************************)
(* Session-start hook (hooks/session-start.js main)                        *)
(***************************************************************************)
NoRec == Rec(<<>>, <<>>, <<>>, "", NoContent, {}, -1)

NoOut ==
    [hook |-> "", cwd |-> NoPath, branch |-> "", teammate |-> "", pruned |-> 0,
     handoff |-> NoRec, priorHeader |-> "", prior |-> NoRec, discoveries |-> {},
     recentFiles |-> {}, teamActivity |-> {}, hasConfig |-> FALSE, crew |-> <<>>,
     didCleanup |-> FALSE, context |-> <<>>, printed |-> FALSE]

\* relevantHandoffs.sort(...)[0]: the handoff generated last
FirstHandoff(relevant) ==
    IF relevant = {} THEN NoRec
    ELSE CHOOSE r \in relevant :
            \A q \in relevant : q.content.generatedAt <= r.content.generatedAt

\* the most recent session on the current branch, with the first session met as fallback
RECURSIVE PickSession(_, _, _)
PickSession(sessions, currentBranch, fallbackSession) ==
    IF sessions = <<>> THEN [branchSession |-> NoRec, fallbackSession |-> fallbackSession]
    ELSE IF Head(sessions).content.branch = currentBranch
    THEN [branchSession |-> Head(sessions), fallbackSession |-> fallbackSession]
    ELSE PickSession(Tail(sessions), currentBranch,
                     IF fallbackSession = NoRec THEN Head(sessions) ELSE fallbackSession)

\* one profile of the "Crew Profiles" block: its teammates, then the table of its team state
ProfileLines(cfg, states, pName, t) ==
    LET profile == cfg.profiles[pName]
        state == states[pName]
        ageHours == t - state.updated_at
        mates == [i \in 1..Len(profile.teammates) |-> profile.teammates[i].name]
    IN <<"###", pName, "Teammates:">> \o mates
         \o (IF ~state.present THEN <<"No previous session.">>
             ELSE <<"rows:", ToString(Cardinality(DOMAIN state.teammates)),
                    IF ageHours > StaleAfterHours(profile, cfg) THEN "Stale" ELSE "Resumable">>)

RECURSIVE AllProfileLines(_, _, _, _)
AllProfileLines(cfg, states, order, t) ==
    IF order = <<>> THEN <<>>
    ELSE ProfileLines(cfg, states, Head(order), t)
           \o AllProfileLines(cfg, states, Tail(order), t)

\* the block on .crew-config.json of the working directory, inside its own try: nothing is
\* pushed when the file is missing, when it has neither profiles nor team, or when the
\* JSON.parse of a team-state.json throws
crewContext(cfg, states, fault, t) ==
    LET read == IF HasProfiles(cfg) THEN Range(cfg.profileOrder) ELSE {"default"}
        throws == fault = "corrupt-state" /\ \E pName \in read : states[pName].present
    IN IF cfg = NoConfig \/ throws THEN <<>>
       ELSE IF HasProfiles(cfg)
       THEN <<"## Crew Profiles:">> \o cfg.profileOrder
               \o AllProfileLines(cfg, states, cfg.profileOrder, t)
       ELSE IF HasTeam(cfg)
       THEN <<"## Team:", cfg.team.name>>
               \o (IF ~states["default"].present THEN <<"No previous team session.">>
                   ELSE <<"rows:", ToString(Cardinality(DOMAIN states["default"].teammates)),
                          IF t - states["default"].updated_at
                                > (IF cfg.stale # NoTime THEN cfg.stale ELSE DefaultStaleHours)
                          THEN "Stale" ELSE "Resumable">>)
       ELSE <<>>

\* the pieces pushed to contextParts, one word per piece
ContextParts(out) ==
    (IF out.pruned > 0 THEN <<"[CCK] Auto-pruned">> ELSE <<>>)
      \o (IF out.handoff # NoRec THEN <<"## Session Handoff">> ELSE <<>>)
      \o (IF out.prior # NoRec THEN <<out.priorHeader>> ELSE <<>>)
      \o (IF out.discoveries # {} THEN <<"## Top Discoveries">> ELSE <<>>)
      \o (IF out.recentFiles # {} THEN <<"## Recent Files">> ELSE <<>>)
      \o (IF out.teamActivity # {} THEN <<"## Team Activity">> ELSE <<>>)
      \o out.crew

\* additionalContext with the heading and the rule put around whatever there is
additionalContextAlwaysFramed(contextParts, didCleanup) ==
    <<"# Capsule Context">> \o contextParts \o <<"---">>
      \o (IF didCleanup THEN <<"[CCK] Cleaned up local v2 artifacts">> ELSE <<>>)

\* additionalContext: '' when contextParts is empty, then the note on the clean-up
additionalContext(contextParts, didCleanup) ==
    (IF contextParts # <<>> THEN <<"# Capsule Context">> \o contextParts \o <<"---">>
     ELSE <<>>)
      \o (IF didCleanup THEN <<"[CCK] Cleaned up local v2 artifacts">> ELSE <<>>)

\* what is printed: the response with its additionalContext
Response(out) ==
    [out EXCEPT !.context = additionalContext(ContextParts(out), out.didCleanup),
                !.printed = TRUE]

sessionStart(ctx, env) ==
    \E projectHash \in {HashOf(ctx)}, crewId \in {CrewIdOf(ctx, NoPath)},
       kept \in {prune(store)} :
    \E allHandoffs \in {search(kept, "handoff")} :
    \E relevantHandoffs \in
         {IF crewId.present
          THEN {r \in allHandoffs :
                  Includes(r.namespace, <<"crew", crewId.teammate_name, "session">>)}
          ELSE {r \in allHandoffs : ~IncludesCrew(r.namespace)}} :
    \E handoffRecord \in {FirstHandoff(relevantHandoffs)} :
    \E recentSessions \in
         {SortRecent(list(kept, crewNamespace(<<"session">>, crewId, projectHash)))} :
    \E picked \in {IF ctx.branch # ""
                   THEN PickSession(SubSeq(recentSessions, 1,
                                           IF Len(recentSessions) < 10
                                           THEN Len(recentSessions) ELSE 10),
                                    ctx.branch, NoRec)
                   \* no git branch detected: the most recent session
                   ELSE [branchSession |-> NoRec,
                         fallbackSession |-> IF recentSessions = <<>> THEN NoRec
                                             ELSE recentSessions[1]]} :
        LET sessionToShow == IF picked.branchSession # NoRec THEN picked.branchSession
                             ELSE picked.fallbackSession
            discoveryNs == IF crewId.present
                           THEN <<"proj", projectHash, "crew", "_shared", "discoveries">>
                           ELSE crewNamespace(<<"discoveries">>, NoIdentity, projectHash)
            out == [NoOut EXCEPT !.hook = "session-start", !.cwd = ctx.cwd,
                                 !.branch = ctx.branch,
                                 !.teammate = IF crewId.present THEN crewId.teammate_name
                                              ELSE "",
                                 !.pruned = Cardinality(store \ kept),
                                 !.discoveries = list(kept, discoveryNs),
                                 !.recentFiles = search(kept, "file"),
                                 !.teamActivity =
                                    IF crewId.present
                                    THEN {r \in list(kept, <<"crew">>) :
                                            ~StartsWith(r.namespace,
                                                        <<"crew", crewId.teammate_name>>)}
                                    ELSE {},
                                 !.hasConfig = env.config # NoConfig,
                                 !.crew = crewContext(env.config,
                                                      IF projectHash = "P1" THEN teamStates
                                                      ELSE [p \in Profiles |-> NoState],
                                                      env.fault, now),
                                 !.didCleanup = env.v2]
        IN /\ store' = kept
           /\ lastOut' =
                IF handoffRecord # NoRec /\ handoffRecord.summary # <<>>
                THEN Response([out EXCEPT !.handoff = handoffRecord])
                ELSE IF sessionToShow # NoRec
                THEN Response([out EXCEPT
                                 !.prior = sessionToShow,
                                 !.priorHeader = IF picked.branchSession # NoRec
                                                 THEN "Branch Context" ELSE "Last Session"])
                ELSE Response(out)

SessionStart(sids, envs) ==
    /\ Step
    /\ \E session \in Sessions(sids), env \in envs :
       \E ctx \in {InEnv(session, env)} :
           /\ IF Proceeds("session-start", ctx.cwd, env)
              THEN /\ sessionStart(ctx, env)
                   /\ clock' = clock + 1
                   /\ seen' = Append(seen, Run("session-start", ctx, "", NoPath))
              \* nothing is printed
              ELSE /\ lastOut' = NoOut
                   /\ UNCHANGED <<store, clock, seen>>
           /\ lastOp' = HookOp("session-start", ctx, env)
           /\ UNCHANGED <<calls, repo, mergeOut, now, teamStates, registry, localRegistry, dirs,
                          shared, hooks, ended>>

\* thirty days go by: every record in the store is now older than the retention window
Age ==
    /\ Step
    /\ /\ \E r \in store : ~r.expired
       /\ store' = {[r EXCEPT !.expired = TRUE] : r \in store}
       /\ lastOp' = [NoOp EXCEPT !.op = "age"]
       /\ UNCHANGED <<calls, repo, mergeOut, now, teamStates, registry, localRegistry, dirs,
                      shared, hooks, ended, clock, seen, lastOut>>

(***************************************************************************)
(* Merge pilot (crew/lib/merge-pilot.js) and the git repository it drives  *)
(***************************************************************************)
\* commits made by hand in one history
MaxCommits == 4

NoCommit == 0

MainBranch == "main"

\* the teammates handed to the merge pilot, in the order of the configuration
MergeMates ==
    <<[name |-> "alice", branch |-> BranchString[BrA]],
      [name |-> "bob", branch |-> BranchString[BrB]],
      [name |-> "carol", branch |-> BranchString[BrC]]>>

MergeBranches == {MergeMates[i].branch : i \in 1..Len(MergeMates)}

SourceFiles == {"src/core.ts", "src/util.ts"}

\* commit i has first parent parent[i], second parent second[i] (NoCommit when it has none)
\* and changes the files files[i]; tip: the commit of each branch, NoCommit when the branch
\* does not exist; head: the branch checked out in the project root; tags: name and commit
InitRepo ==
    [parent |-> <<NoCommit>>, second |-> <<NoCommit>>, files |-> <<{}>>,
     tip |-> [b \in {MainBranch} \cup MergeBranches |->
                IF b = BranchString[BrC] THEN NoCommit ELSE 1],
     head |-> MainBranch, tags |-> {}]

\* the commits reachable from c, c included
RECURSIVE Ancestors(_, _)
Ancestors(r, c) ==
    IF c = NoCommit THEN {}
    ELSE {c} \cup Ancestors(r, r.parent[c]) \cup Ancestors(r, r.second[c])

\* git merge-base: a later commit has the larger number
MergeBase(r, x, y) ==
    LET common == Ancestors(r, x) \cap Ancestors(r, y)
    IN IF common = {} THEN NoCommit
       ELSE CHOOSE c \in common : \A d \in common : d <= c

\* the files that differ between commit base and its descendant c
ChangedSince(r, base, c) ==
    UNION {r.files[i] : i \in Ancestors(r, c) \ Ancestors(r, base)}

\* git diff --name-only main...branch
DiffNames(r, mainBranch, branch) ==
    ChangedSince(r, MergeBase(r, r.tip[mainBranch], r.tip[branch]), r.tip[branch])

\* the files both sides have changed since their merge base: a three-way merge of two
\* different changes to one file conflicts
ConflictFiles(r, ours, theirs) ==
    LET base == MergeBase(r, ours, theirs)
    IN ChangedSince(r, base, ours) \cap ChangedSince(r, base, theirs)

\* git commit on a branch
GitCommit(r, branch, changed, secondParent) ==
    [r EXCEPT !.parent = Append(@, r.tip[branch]),
              !.second = Append(@, secondParent),
              !.files = Append(@, changed),
              !.tip[branch] = Len(r.parent) + 1]

\* git merge <branch> --no-edit with HEAD on mainBranch: [ok, repo]
GitMerge(r, mainBranch, branch) ==
    LET ours == r.tip[mainBranch]
        theirs == r.tip[branch]
    IN IF theirs \in Ancestors(r, ours) THEN [ok |-> TRUE, repo |-> r]
       ELSE IF ours \in Ancestors(r, theirs)
       THEN [ok |-> TRUE, repo |-> [r EXCEPT !.tip[mainBranch] = theirs]]
       ELSE IF ConflictFiles(r, ours, theirs) # {} THEN [ok |-> FALSE, repo |-> r]
       ELSE [ok |-> TRUE, repo |-> GitCommit(r, mainBranch, {}, theirs)]

\* git reset --hard HEAD~1 with HEAD on mainBranch: fails on a commit without parent
GitResetHead1(r, mainBranch) ==
    IF r.parent[r.tip[mainBranch]] = NoCommit THEN [ok |-> FALSE, repo |-> r]
    ELSE [ok |-> TRUE, repo |-> [r EXCEPT !.tip[mainBranch] = r.parent[r.tip[mainBranch]]]]

NoMergeOut ==
    [op |-> "", preview |-> <<>>, overlaps |-> <<>>, success |-> <<>>, failed |-> <<>>,
     skipped |-> <<>>, backup_tag |-> <<>>, threw |-> FALSE, log |-> <<>>,
     createBackup |-> FALSE, runTests |-> FALSE]

\* a teammate, or the lead on main, commits a change to one file
Commit ==
    /\ Step
    /\ \E b \in {MainBranch} \cup MergeBranches, f \in SourceFiles :
           /\ repo.tip[b] # NoCommit
           /\ Len(repo.parent) < MaxCommits
           /\ repo' = GitCommit(repo, b, {f}, NoCommit)
           /\ lastOp' = [NoOp EXCEPT !.op = "commit"]
           /\ UNCHANGED <<calls, mergeOut, now, teamStates, registry, localRegistry, dirs,
                          shared, hooks, ended, store, clock, seen, lastOut>>

\* the lead checks another branch out in the project root
Checkout ==
    /\ Step
    /\ \E b \in {MainBranch} \cup MergeBranches :
           /\ repo.tip[b] # NoCommit
           /\ b # repo.head
           /\ repo' = [repo EXCEPT !.head = b]
           /\ lastOp' = [NoOp EXCEPT !.op = "checkout"]
           /\ UNCHANGED <<calls, mergeOut, now, teamStates, registry, localRegistry, dirs,
                          shared, hooks, ended, store, clock, seen, lastOut>>

\* one row of mergePreview
PreviewRow(r, mainBranch, mate) ==
    IF r.tip[mate.branch] = NoCommit
    THEN [name |-> mate.name, branch |-> mate.branch, status |-> "error",
          conflictFiles |-> {}, changedFiles |-> {}, message |-> "does not exist"]
    ELSE LET changedFiles == DiffNames(r, mainBranch, mate.branch)
             \* git merge-tree --write-tree exits with 1
             hasConflicts == ConflictFiles(r, r.tip[mainBranch], r.tip[mate.branch]) # {}
         IN [name |-> mate.name, branch |-> mate.branch,
             status |-> IF hasConflicts THEN "conflict" ELSE "clean",
             \* no line of the output begins with "conflict in": all changed files
             conflictFiles |-> IF hasConflicts THEN changedFiles ELSE {},
             changedFiles |-> changedFiles, message |-> ""]

mergePreview(r, mainBranch, teammates) ==
    [i \in 1..Len(teammates) |-> PreviewRow(r, mainBranch, teammates[i])]

\* the pairs (i, j), i < j, in the order of the two loops, from pair (i, j) on
RECURSIVE OverlapPairs(_, _, _)
OverlapPairs(teammateFiles, i, j) ==
    IF i > Len(teammateFiles) THEN <<>>
    ELSE IF j > Len(teammateFiles) THEN OverlapPairs(teammateFiles, i + 1, i + 2)
    ELSE LET common == teammateFiles[i].files \cap teammateFiles[j].files
         IN (IF common # {}
             THEN <<[teammates |-> <<teammateFiles[i].name, teammateFiles[j].name>>,
                     files |-> common]>>
             ELSE <<>>) \o OverlapPairs(teammateFiles, i, j + 1)

detectOverlaps(r, mainBranch, teammates) ==
    LET teammateFiles ==
            [i \in 1..Len(teammates) |->
                [name |-> teammates[i].name,
                 files |-> IF r.tip[teammates[i].branch] = NoCommit THEN {}
                           ELSE DiffNames(r, mainBranch, teammates[i].branch)]]
    IN OverlapPairs(teammateFiles, 1, 2)

\* filter
RECURSIVE WithStatus(_, _)
WithStatus(preview, status) ==
    IF preview = <<>> THEN <<>>
    ELSE (IF Head(preview).status = status THEN <<Head(preview)>> ELSE <<>>)
            \o WithStatus(Tail(preview), status)

\* an order that takes the branches as the preview lists them
MergeOrderAsPreviewed(preview) ==
    LET RECURSIVE Keep(_)
        Keep(p) == IF p = <<>> THEN <<>>
                   ELSE (IF Head(p).status # "error" THEN <<Head(p)>> ELSE <<>>)
                           \o Keep(Tail(p))
    IN Keep(preview)

\* step 3: clean first, conflicts last
MergeOrder(preview) == WithStatus(preview, "clean") \o WithStatus(preview, "conflict")

\* one command executeMerge runs in the project root (tag, checkout, merge, test, reset,
\* abort): the branch it is run for and the commit of the main branch before and after it
Cmd(cmd, branch, from, to) == [cmd |-> cmd, branch |-> branch, from |-> from, to |-> to]

\* step 4 for the branches of mergeOrder; acc = [repo, success, failed, log]
RECURSIVE MergeLoop(_, _, _, _, _)
MergeLoop(mergeOrder, mainBranch, runTests, testFails, acc) ==
    IF mergeOrder = <<>> THEN acc
    ELSE LET item == Head(mergeOrder)
             r1 == [acc.repo EXCEPT !.head = mainBranch]
             before == r1.tip[mainBranch]
             m == GitMerge(r1, mainBranch, item.branch)
             merged == m.repo.tip[mainBranch]
             reset == GitResetHead1(m.repo, mainBranch)
             log1 == acc.log \o <<Cmd("checkout", item.branch, before, before),
                                  Cmd("merge", item.branch, before, merged)>>
             log2 == Append(log1, Cmd("test", item.branch, merged, merged))
             fail(reason) == Append(acc.failed, [name |-> item.name, branch |-> item.branch,
                                                 reason |-> reason])
             next ==
                 IF ~m.ok
                 THEN [repo |-> r1, success |-> acc.success,
                       failed |-> fail("Merge conflicts detected"),
                       log |-> Append(log1, Cmd("abort", item.branch, before, before))]
                 ELSE IF runTests /\ item.branch \in testFails
                 THEN IF reset.ok
                      THEN [repo |-> reset.repo, success |-> acc.success,
                            failed |-> fail("Tests failed after merge"),
                            log |-> Append(log2, Cmd("reset", item.branch, merged,
                                                     reset.repo.tip[mainBranch]))]
                      \* the reset throws inside the handler of the merge: abort, failed
                      ELSE [repo |-> m.repo, success |-> acc.success,
                            failed |-> fail("Merge conflicts detected"),
                            log |-> Append(log2, Cmd("abort", item.branch, merged, merged))]
                 ELSE [repo |-> m.repo,
                       success |-> Append(acc.success,
                                          [name |-> item.name, branch |-> item.branch,
                                           status |-> item.status,
                                           testResult |-> IF runTests THEN "passed" ELSE ""]),
                       failed |-> acc.failed, log |-> IF runTests THEN log2 ELSE log1]
         IN MergeLoop(Tail(mergeOrder), mainBranch, runTests, testFails, next)

\* errorBranches to results.skipped
SkippedRows(preview) ==
    LET errs == WithStatus(preview, "error")
    IN [i \in 1..Len(errs) |->
          [name |-> errs[i].name, branch |-> errs[i].branch,
           reason |-> IF errs[i].message # "" THEN errs[i].message ELSE "Preview error"]]

\* executeMerge: [repo, out]; t: the timestamp of the tag; tagFails: git tag exits non-zero
executeMerge(r, mainBranch, teammates, runTests, createBackup, tagFails, testFails, t) ==
    LET preview == mergePreview(r, mainBranch, teammates)
        backupTag == <<"crew-backup", t>>
        tagged == [r EXCEPT !.tags = @ \cup {[name |-> backupTag, commit |-> r.tip[r.head]]}]
        r0 == IF createBackup THEN tagged ELSE r
        log0 == IF createBackup
                THEN <<Cmd("tag", r.head, r.tip[mainBranch], r.tip[mainBranch])>> ELSE <<>>
        out0 == [NoMergeOut EXCEPT !.op = "merge", !.preview = preview,
                                   !.createBackup = createBackup, !.runTests = runTests]
        res == MergeLoop(MergeOrder(preview), mainBranch, runTests, testFails,
                         [repo |-> r0, success |-> <<>>, failed |-> <<>>, log |-> log0])
    IN IF createBackup /\ tagFails
       THEN [repo |-> r, out |-> [out0 EXCEPT !.threw = TRUE]]
       ELSE [repo |-> res.repo,
             out |-> [out0 EXCEPT !.success = res.success, !.failed = res.failed,
                                  !.skipped = SkippedRows(preview),
                                  !.backup_tag = IF createBackup THEN backupTag ELSE <<>>,
                                  !.log = res.log]]

\* mergePreview is called for the teammates of the team
MergePreview ==
    /\ Step
    /\ mergeOut' = [NoMergeOut EXCEPT !.op = "preview",
                                      !.preview = mergePreview(repo, MainBranch, MergeMates)]
    /\ lastOp' = [NoOp EXCEPT !.op = "merge-preview"]
    /\ UNCHANGED <<calls, repo, now, teamStates, registry, localRegistry, dirs, shared, hooks,
                   ended, store, clock, seen, lastOut>>

\* detectOverlaps is called for the teammates of the team
DetectOverlaps ==
    /\ Step
    /\ mergeOut' = [NoMergeOut EXCEPT !.op = "overlaps",
                                      !.overlaps = detectOverlaps(repo, MainBranch, MergeMates)]
    /\ lastOp' = [NoOp EXCEPT !.op = "detect-overlaps"]
    /\ UNCHANGED <<calls, repo, now, teamStates, registry, localRegistry, dirs, shared, hooks,
                   ended, store, clock, seen, lastOut>>

\* executeMerge is called for the teammates of the team; the test command fails after the
\* merge of the branches in testFails
ExecuteMerge ==
    /\ Step
    /\ \E runTests, createBackup, tagFails \in BOOLEAN,
          testFails \in SUBSET {BranchString[BrA], BranchString[BrB]} :
           /\ ~runTests => testFails = {}
           /\ ~createBackup => ~tagFails
           /\ \E res \in {executeMerge(repo, MainBranch, MergeMates, runTests, createBackup,
                                       tagFails, testFails, clock)} :
                  /\ repo' = res.repo
                  /\ mergeOut' = res.out
           /\ clock' = clock + 1
           /\ lastOp' = [NoOp EXCEPT !.op = "merge"]
           /\ UNCHANGED <<calls, now, teamStates, registry, localRegistry, dirs, shared, hooks,
                          ended, store, seen, lastOut>>

(***************************************************************************)
(* Specifications                                                          *)
(***************************************************************************)
(***************************************************************************)
(* Calls of the config reader (crew/lib/crew-config-reader.js)             *)
(***************************************************************************)
MaxCalls == 2

NoCall ==
    [fn |-> "", profile |-> "", branch |-> <<>>, cfg |-> NoConfig, sanitized |-> <<>>,
     path |-> NoPath, hash |-> NoHash, errors |-> FALSE,
     resolved |-> [ok |-> FALSE, profile |-> NoTeam, profileName |-> ""],
     hint |-> NoPath, worktrees |-> <<>>, teammate |-> ""]

\* the profile names and branches that worktree paths are asked for
PathProfiles == {"", "default", "dev", "qa"}

PathBranches == {BrA, BrB, BrDevA, BrHashA}

\* a call is added to the history; nothing else changes
Called(call) == calls' = calls \cup {call}

ResolveWorktreePath ==
    /\ Cardinality(calls) < MaxCalls
    /\ \E profileName \in PathProfiles, branch \in PathBranches :
          Called([NoCall EXCEPT !.fn = "resolveWorktreePath", !.profile = profileName,
                                !.branch = branch, !.sanitized = ReplaceSlashes(branch),
                                !.path = resolveWorktreePath(Root, branch, profileName)])
    /\ UNCHANGED <<ops, now, teamStates, registry, localRegistry, dirs, shared, hooks, ended,
                   lastOp, store, clock, seen, lastOut, repo, mergeOut>>

\* the worktree manager script's path for a branch
WorktreePathFor ==
    /\ Cardinality(calls) < MaxCalls
    /\ \E branch \in PathBranches :
          Called([NoCall EXCEPT !.fn = "_worktree_path_for", !.branch = branch,
                                !.sanitized = _sanitize_branch(branch),
                                !.path = _worktree_path_for(Root, branch)])
    /\ UNCHANGED <<ops, now, teamStates, registry, localRegistry, dirs, shared, hooks, ended,
                   lastOp, store, clock, seen, lastOut, repo, mergeOut>>

HashConfig ==
    /\ Cardinality(calls) < MaxCalls
    /\ \E cfg \in ReaderConfigs :
          Called([NoCall EXCEPT !.fn = "hashConfig", !.cfg = cfg, !.hash = hashConfig(cfg)])
    /\ UNCHANGED <<ops, now, teamStates, registry, localRegistry, dirs, shared, hooks, ended,
                   lastOp, store, clock, seen, lastOut, repo, mergeOut>>

\* errors: validateConfig returned a non-empty list, and crewStart exits with 1
ValidateConfig ==
    /\ Cardinality(calls) < MaxCalls
    /\ \E cfg \in ReaderConfigs :
          Called([NoCall EXCEPT !.fn = "validateConfig", !.cfg = cfg,
                                !.errors = ~validateConfig(cfg)])
    /\ UNCHANGED <<ops, now, teamStates, registry, localRegistry, dirs, shared, hooks, ended,
                   lastOp, store, clock, seen, lastOut, repo, mergeOut>>

\* resolveProfile on a config that passed validation; the profile argument may be absent
ResolveProfile ==
    /\ Cardinality(calls) < MaxCalls
    /\ \E cfg \in {c \in ReaderConfigs : validateConfig(c)}, requestedName \in PathProfiles :
          Called([NoCall EXCEPT !.fn = "resolveProfile", !.cfg = cfg,
                                !.profile = requestedName,
                                !.resolved = resolveProfile(cfg, requestedName)])
    /\ UNCHANGED <<ops, now, teamStates, registry, localRegistry, dirs, shared, hooks, ended,
                   lastOp, store, clock, seen, lastOut, repo, mergeOut>>

\* a branch whose name continues the name of feat/a
BrAb == BrA \o <<"b">>

\* the worktrees of alice on feat/a and of bob on feat/ab, as start provisions them
HintEntries ==
    <<[name |-> "alice", branch |-> BrA, path |-> resolveWorktreePath(Root, BrA, "")],
      [name |-> "bob", branch |-> BrAb, path |-> resolveWorktreePath(Root, BrAb, "")]>>

HintDirs ==
    [x \in {HintEntries[i].path : i \in DOMAIN HintEntries} |->
        LET e == CHOOSE w \in Range(HintEntries) : w.path = x
        IN [NoDir EXCEPT !.exists = TRUE, !.worktree = TRUE,
                         !.identity = [present |-> TRUE, teammate_name |-> e.name,
                                       project_root |-> Root, branch |-> e.branch,
                                       team_name |-> "crew", profile_name |-> "default"]]]

\* the file of a tool call: one inside each worktree
HintFiles == {HintEntries[i].path \o <<"/", "f">> : i \in DOMAIN HintEntries}

\* getCrewIdentity of the lead's session at the project root with a filePath hint, on a
\* registry that lists the two worktrees in either order
GetCrewIdentity ==
    /\ Cardinality(calls) < MaxCalls
    /\ \E filePath \in HintFiles,
          worktrees \in {HintEntries, <<HintEntries[2], HintEntries[1]>>} :
          Called([NoCall EXCEPT
                    !.fn = "getCrewIdentity", !.hint = filePath, !.worktrees = worktrees,
                    !.teammate = getCrewIdentity(Root, NoPath, filePath,
                                                 [present |-> TRUE, worktrees |-> worktrees],
                                                 NoRegistry, HintDirs).teammate_name])
    /\ UNCHANGED <<ops, now, teamStates, registry, localRegistry, dirs, shared, hooks, ended,
                   lastOp, store, clock, seen, lastOut, repo, mergeOut>>

NoCrewState ==
    /\ teamStates = [p \in Profiles |-> NoState]
    /\ registry = NoRegistry
    /\ localRegistry = NoRegistry
    /\ dirs = [x \in AllPaths |-> NoDir]
    /\ shared = SharedDirs
    /\ hooks = [h \in HookIds |-> IdleHook]
    /\ ended = {}
    /\ lastOp = NoOp

Init ==
    /\ ops = 0
    /\ now = 0
    /\ NoCrewState
    /\ store = {}
    /\ clock = 0
    /\ seen = <<>>
    /\ lastOut = NoOut
    /\ repo = InitRepo
    /\ mergeOut = NoMergeOut
    /\ calls = {}

\* the crew lifecycle: start, stop, the session-end hooks of the teammates, gc
Next ==
    \/ CrewStart(CrewConfigs)
    \/ CrewStop(CrewConfigs)
    \/ UpdateTeammateState
    \/ Gc
    \/ Tick

Spec == Init /\ [][Next]_vars

\* teammates' session-end hooks running next to each other and to the CLI
NextHooks ==
    \/ CrewStart(HookConfigs)
    \/ CrewStop(HookConfigs)
    \/ \E h \in HookIds : SessionEndLoad(h, SessionIds, {NoEnv})
    \/ \E h \in HookIds : SessionEndSave(h)
    \/ Tick

SpecHooks == Init /\ [][NextHooks]_vars

\* the capture hooks of sessions in two projects on one record store
NextStore ==
    \/ PostToolUse(SessionIds, {NoEnv})
    \/ PreCompact(SessionIds, {NoEnv})
    \/ \E h \in HookIds : SessionEndLoad(h, SessionIds, {NoEnv})
    \/ SessionStart(SessionIds, {NoEnv})
    \/ Age

SpecStore == Init /\ [][NextStore]_vars

\* the hooks of the lead's and the teammates' sessions in whatever surroundings, next to
\* starts of the crew; MaxRuns caps the store's clock, which a hook run that gets to its
\* work moves on
MaxRuns == 1

RunPostToolUse == clock < MaxRuns /\ PostToolUse(CrewSessionIds, HookEnvs)

RunPreCompact == clock < MaxRuns /\ PreCompact(CrewSessionIds, HookEnvs)

RunSessionEnd(h) == clock < MaxRuns /\ SessionEndLoad(h, CrewSessionIds, HookEnvs)

RunSessionStart == clock < MaxRuns /\ SessionStart(CrewSessionIds, HookEnvs)

NextCrewHooks ==
    \/ CrewStart({CfgSolo})
    \/ RunPostToolUse
    \/ RunPreCompact
    \/ RunSessionEnd("h1")
    \/ SessionEndSave("h1")
    \/ RunSessionStart

SpecCrewHooks == Init /\ [][NextCrewHooks]_vars

\* start and stop on the configurations whose teammates collide or are grouped
NextTeams ==
    \/ CrewStart(TeamConfigs)
    \/ CrewStop(TeamConfigs)
    \/ UpdateTeammateState
    \/ Tick

SpecTeams == Init /\ [][NextTeams]_vars

\* the config reader's functions on their own
NextReader ==
    \/ ResolveWorktreePath
    \/ WorktreePathFor
    \/ HashConfig
    \/ ValidateConfig
    \/ ResolveProfile
    \/ GetCrewIdentity

SpecReader == Init /\ [][NextReader]_vars

\* worktrees made by the worktree manager script and then run by the CLI
NextWM ==
    \/ setup_worktrees
    \/ cleanup_worktrees
    \/ CrewStart(LegacyConfigs)
    \/ CrewStop(LegacyConfigs)
    \/ Gc
    \/ ForeignDir

SpecWM == Init /\ [][NextWM]_vars

\* teammates commit on their branches, the lead previews and merges them into main
NextMerge ==
    \/ Commit
    \/ Checkout
    \/ MergePreview
    \/ DetectOverlaps
    \/ ExecuteMerge

SpecMerge == Init /\ [][NextMerge]_vars

\* profiles started and stopped in turn, gc run in between
NextGc ==
    \/ CrewStart(GcConfigs)
    \/ CrewStop(GcConfigs)
    \/ UpdateTeammateState
    \/ Gc
    \/ Tick

SpecGc == Init /\ [][NextGc]_vars

(***************************************************************************)
(* Properties                                                              *)
(***************************************************************************)
\* C1: whenever a worktree directory is removed (stop --cleanup, gc cleanup, the worktree
\* manager), no symbolic link is left in its state directory when the removal starts.
C1_LinksUnlinkedBeforeRemoval == \A r \in lastOp.removals : r.links = {}

C3_NoLostUpdate ==
    \A e \in ended :
        /\ teamStates[e.profile].present
        /\ e.name \in DOMAIN teamStates[e.profile].teammates
        /\ teamStates[e.profile].teammates[e.name].last_active >= e.at

\* C4: every teammate of any profile's TeamState that has a worktree path and is not stopped
\* has a registry entry with its name, branch and path.
C4_RegistryCoversTeammates ==
    \A p \in Profiles :
        teamStates[p].present =>
            \A n \in DOMAIN teamStates[p].teammates :
                LET mate == teamStates[p].teammates[n]
                IN (mate.worktree_path # NoPath /\ mate.status # "stopped") =>
                      /\ registry.present
                      /\ [name |-> n, branch |-> mate.branch, path |-> mate.worktree_path]
                            \in Range(registry.worktrees)

\* C5: immediately after a successful stop --cleanup, findOrphans returns nothing.
C5_NoOrphansAfterCleanup ==
    (lastOp.op = "stop" /\ lastOp.cleanup /\ lastOp.ok) =>
        findOrphans(registry, teamStates, dirs, DefaultStaleHours, now) = <<>>

\* C9: `start dev` on empty state, for the profile dev of alice (feat/a, developer) and bob
\* (feat/b, reviewer), creates the worktrees <root>-dev-feat--a and <root>-dev-feat--b, each
\* with a crew-identity.json, lists both in the registry, and saves a TeamState with status
\* active, the hash of the configuration, and every teammate pending.
C9_StartOnEmptyState ==
    (/\ lastOp.op = "start"
     /\ lastOp.profile = "dev"
     /\ lastOp.cfg = hashConfig(CfgScenario)
     /\ lastOp.fromEmpty
     /\ lastOp.gitFailed = {}) =>
        LET wtA == resolveWorktreePath(Root, BrA, "dev")
            wtB == resolveWorktreePath(Root, BrB, "dev")
        IN /\ wtA = Root \o <<"-", "d", "e", "v", "-", "f", "e", "a", "t", "-", "-", "a">>
           /\ wtB = Root \o <<"-", "d", "e", "v", "-", "f", "e", "a", "t", "-", "-", "b">>
           /\ \A x \in {wtA, wtB} : dirs[x].exists /\ dirs[x].worktree /\ dirs[x].identity.present
           /\ registry.present
           /\ {w.path : w \in Range(registry.worktrees)} = {wtA, wtB}
           /\ teamStates["dev"].present
           /\ teamStates["dev"].status = "active"
           /\ teamStates["dev"].config_hash = hashConfig(CfgScenario)
           /\ DOMAIN teamStates["dev"].teammates = {"alice", "bob"}
           /\ \A n \in DOMAIN teamStates["dev"].teammates :
                 teamStates["dev"].teammates[n].status = "pending"

\* C10: in the TeamState that start saves, agent_id and last_active are those of the previous
\* state exactly for the teammates that were in it and are resumed; every other teammate is
\* saved pending with no agent_id.
C10_StartCarryOver ==
    [][(lastOp'.op = "start" /\ lastOp'.ok) =>
          LET p == lastOp'.profile
          IN \A n \in DOMAIN teamStates'[p].teammates :
                LET resumed == /\ lastOp'.resume
                               /\ teamStates[p].present
                               /\ n \in DOMAIN teamStates[p].teammates
                    saved == teamStates'[p].teammates[n]
                IN IF resumed
                   THEN /\ saved.agent_id = teamStates[p].teammates[n].agent_id
                        /\ saved.last_active = teamStates[p].teammates[n].last_active
                   ELSE /\ saved.status = "pending"
                        /\ saved.agent_id = NoAgent]_vars

\* a start has resumed a teammate that had an agent id
C10_Witness ==
    /\ lastOp.op = "start"
    /\ lastOp.ok
    /\ lastOp.resume
    /\ \E n \in DOMAIN teamStates[lastOp.profile].teammates :
          /\ teamStates[lastOp.profile].teammates[n].agent_id # NoAgent
          /\ teamStates[lastOp.profile].teammates[n].last_active # NoTime

\* the handoff records of the project, and of the teammate in crew mode, that the last
\* session-start ran for
MatchingHandoffs ==
    {r \in store :
        /\ "handoff" \in r.tags
        /\ Len(r.namespace) >= 2
        /\ r.namespace[2] = getProjectHash(lastOut.cwd, TRUE)
        /\ IF lastOut.teammate = "" THEN ~IncludesCrew(r.namespace)
           ELSE Includes(r.namespace, <<"crew", lastOut.teammate, "session">>)}

\* C6: when a handoff record exists in the handoff namespace of the current project (and
\* teammate), session-start prints the most recent such handoff document verbatim under
\* "Session Handoff" and prints no "Last Session" section.
C6_HandoffReturnedVerbatim ==
    (lastOp.op = "session-start" /\ MatchingHandoffs # {}) =>
        /\ lastOut.handoff # NoRec
        /\ lastOut.handoff.summary = SortRecent(MatchingHandoffs)[1].summary
        /\ lastOut.priorHeader # "Last Session"

\* the branch that was checked out in the session of that id
SessionBranch(sid) ==
    IF \E c \in Contexts : c.sid = sid THEN (CHOOSE c \in Contexts : c.sid = sid).branch
    ELSE ""

\* the summaries of the sessions of the current project that ended on the current branch
SessionsOnBranch ==
    {r \in list(store, <<"proj", getProjectHash(lastOut.cwd, TRUE), "session">>) :
        SessionBranch(r.content.sessionId) = lastOut.branch}

\* C7: with no handoff in the store, a session started on a branch on which an earlier
\* session of the project ended is given the most recent such session as its Branch
\* Context, also when a session on another branch ended later.
C7_BranchSessionPreferred ==
    (/\ lastOp.op = "session-start"
     /\ lastOut.teammate = ""
     /\ search(store, "handoff") = {}
     /\ SessionsOnBranch # {}) =>
        /\ lastOut.priorHeader = "Branch Context"
        /\ lastOut.prior = SortRecent(SessionsOnBranch)[1]

ReadA == Run("post-tool-use", [cwd |-> Root, branch |-> "main", sid |-> "S1"], "Read", FileA)

EditA == Run("post-tool-use", [cwd |-> Root, branch |-> "main", sid |-> "S1"], "Edit", FileA)

EndS1 == Run("session-end", [cwd |-> Root, branch |-> "main", sid |-> "S1"], "", NoPath)

\* C8: in the solo session S1, after a Read and then an Edit of /p/src/a.ts the files
\* namespace of the session holds two records titled a.ts, one with a summary starting
\* "read:" and one with a summary starting "edit:", and the summary of a session end that
\* follows counts two files.
C8_ReadThenEditKeepsBoth ==
    LET n == Len(seen)
        filesNs == <<"proj", "P1", "session", "S1", "files">>
    IN /\ (n >= 2 /\ seen[n - 1] = ReadA /\ seen[n] = EditA) =>
             \E r1, r2 \in list(store, filesNs) :
                /\ r1.title = <<"a.ts">> /\ r1.summary[1] = "read:"
                /\ r2.title = <<"a.ts">> /\ r2.summary[1] = "edit:"
       /\ (n >= 3 /\ seen[n - 2] = ReadA /\ seen[n - 1] = EditA /\ seen[n] = EndS1) =>
             \E r \in list(store, <<"proj", "P1", "session">>) :
                r.updated_at = clock - 1 /\ r.content.filesCount = 2

\* a start that got past the validation of the configuration and of the profile
Started(op) == op.op = "start" /\ (op.ok \/ op.prompt.threw)

\* C11: a start followed by a start --fresh of the same profile, on the same configuration,
\* leaves the registry entries and the worktree paths as the first start made them, and saves
\* a TeamState with the hash of the configuration and a started_at of the second start.
C11_FreshAfterStart ==
    [][(/\ Started(lastOp) /\ Started(lastOp')
        /\ lastOp'.fresh
        /\ lastOp'.profile = lastOp.profile
        /\ lastOp'.cfg = lastOp.cfg) =>
          LET p == lastOp'.profile
          IN /\ registry' = registry
             /\ teamStates'[p].present
             /\ teamStates'[p].config_hash = lastOp'.cfg
             /\ teamStates'[p].started_at = now'
             /\ teamStates[p].present =>
                   \A n \in DOMAIN teamStates[p].teammates :
                      /\ n \in DOMAIN teamStates'[p].teammates
                      /\ teamStates'[p].teammates[n].worktree_path =
                            teamStates[p].teammates[n].worktree_path]_vars

\* the configuration a start ran on
ConfigOf(op) == CHOOSE c \in CrewConfigs : hashConfig(c) = op.cfg

\* the staleness window: the profile's stale_after_hours, else the top-level one, else 4 hours
Window(op) ==
    LET c == ConfigOf(op)
        prof == c.profiles[op.profile]
    IN IF prof.stale # NoTime THEN prof.stale
       ELSE IF c.stale # NoTime THEN c.stale
       ELSE 4

\* C12: a start without --fresh never resumes when no teammate of the existing TeamState has
\* a last_active within the staleness window (the profile's stale_after_hours, else the
\* top-level one, else 4 hours): the TeamState it saves starts anew, every teammate pending.
C12_StaleStartsFresh ==
    [][(/\ Started(lastOp') /\ ~lastOp'.fresh
        /\ \A n \in DOMAIN teamStates[lastOp'.profile].teammates :
              LET la == teamStates[lastOp'.profile].teammates[n].last_active
              IN la = NoTime \/ now - la > Window(lastOp')) =>
          /\ ~lastOp'.resume
          /\ lastOp'.ok =>
                /\ teamStates'[lastOp'.profile].started_at = now'
                /\ \A n \in DOMAIN teamStates'[lastOp'.profile].teammates :
                      /\ teamStates'[lastOp'.profile].teammates[n].status = "pending"
                      /\ teamStates'[lastOp'.profile].teammates[n].last_active = NoTime]_vars

\* a start of profile dev, whose window of 1 hour comes before the top-level 5 hours, has
\* found the saved state of the same configuration with a teammate last active 5 hours ago
C12_Witness ==
    /\ lastOp.op = "start" /\ lastOp.ok /\ ~lastOp.fresh
    /\ lastOp.cfg = hashConfig(CfgWorkStale) /\ lastOp.profile = "dev"
    /\ lastOp.prevHash = lastOp.cfg
    /\ lastOp.prevAges = {5}
    /\ ~lastOp.resume

\* C13: when a stop of a profile that has saved state completes, the profile's TeamState is
\* stopped and so is every one of its teammates.
C13_StopMarksStopped ==
    (lastOp.op = "stop" /\ teamStates[lastOp.profile].present) =>
        /\ teamStates[lastOp.profile].status = "stopped"
        /\ \A n \in DOMAIN teamStates[lastOp.profile].teammates :
              teamStates[lastOp.profile].teammates[n].status = "stopped"

\* a team with a teammate that an agent had been working as has just been stopped
C13_Witness ==
    /\ lastOp.op = "stop"
    /\ teamStates[lastOp.profile].present
    /\ \E n \in DOMAIN teamStates[lastOp.profile].teammates :
          teamStates[lastOp.profile].teammates[n].agent_id # NoAgent

\* C14: when a session-end hook that ran in crew mode is over, the TeamState of the ending
\* teammate's profile has that teammate idle with last_active at the current time.
C14_SessionEndMarksIdle ==
    (lastOp.op = "session-end" /\ lastOp.mate # "") =>
        /\ teamStates[lastOp.profile].present
        /\ lastOp.mate \in DOMAIN teamStates[lastOp.profile].teammates
        /\ teamStates[lastOp.profile].teammates[lastOp.mate].last_active = now
        /\ teamStates[lastOp.profile].teammates[lastOp.mate].status = "idle"

\* C15: provisioning (start, or the worktree manager's setup) leaves alone a teammate whose
\* worktree path exists without being a git worktree: the directory is as it was, with no
\* identity file written into it, and no registry gains an entry for it.
C15_ForeignDirUntouched ==
    [][(Started(lastOp') \/ lastOp'.op = "setup") =>
          \A x \in AllPaths :
             (dirs[x].exists /\ ~dirs[x].worktree) =>
                /\ dirs'[x] = dirs[x]
                /\ \A w \in Range(registry'.worktrees) :
                      w.path = x => w \in Range(registry.worktrees)
                /\ \A w \in Range(localRegistry'.worktrees) :
                      w.path = x => w \in Range(localRegistry.worktrees)]_vars

\* C16: a run of executeMerge that is to make a backup has tagged the commit of the main
\* branch as crew-backup-<timestamp> before its first checkout, merge or reset.
C16_BackupTagOnMain ==
    (mergeOut.op = "merge" /\ mergeOut.createBackup /\ ~mergeOut.threw) =>
        /\ mergeOut.backup_tag # <<>>
        /\ mergeOut.log # <<>>
        /\ mergeOut.log[1].cmd = "tag"
        /\ \E t \in repo.tags :
               t.name = mergeOut.backup_tag /\ t.commit = mergeOut.log[1].from

\* C17: when the test command fails after the merge of a branch, the main branch is back on
\* the commit it had before that merge and the branch is in failed.
C17_TestFailureRollsBack ==
    mergeOut.op = "merge" =>
        \A j \in 2..Len(mergeOut.log) :
            (mergeOut.log[j].cmd = "test" /\ mergeOut.log[j - 1].cmd = "merge"
                /\ j < Len(mergeOut.log)
                /\ mergeOut.log[j + 1].cmd \in {"reset", "abort"}
                /\ mergeOut.log[j + 1].branch = mergeOut.log[j].branch) =>
               /\ mergeOut.log[j + 1].to = mergeOut.log[j - 1].from
               /\ \E k \in 1..Len(mergeOut.failed) :
                      mergeOut.failed[k].branch = mergeOut.log[j].branch


\* the branches executeMerge ran git merge for, in the order of the run
MergeAttempts ==
    LET IsMerge(c) == c.cmd = "merge"
        merges == SelectSeq(mergeOut.log, IsMerge)
    IN [i \in 1..Len(merges) |-> merges[i].branch]

PreviewedAs(branch) ==
    LET i == CHOOSE i \in 1..Len(mergeOut.preview) : mergeOut.preview[i].branch = branch
    IN mergeOut.preview[i].status

\* C18: executeMerge attempts every branch previewed clean or conflict once, no branch
\* previewed clean after a branch previewed conflict; a branch previewed error is not
\* attempted and is in skipped with a reason.
C18_CleanFirstErrorsSkipped ==
    (mergeOut.op = "merge" /\ ~mergeOut.threw) =>
        /\ \A i, j \in 1..Len(MergeAttempts) :
               /\ i < j => MergeAttempts[i] # MergeAttempts[j]
               /\ (i < j /\ PreviewedAs(MergeAttempts[i]) = "conflict") =>
                      PreviewedAs(MergeAttempts[j]) = "conflict"
        /\ \A i \in 1..Len(mergeOut.preview) :
               LET row == mergeOut.preview[i]
                   attempted == \E k \in 1..Len(MergeAttempts) : MergeAttempts[k] = row.branch
               IN IF row.status = "error"
                  THEN /\ ~attempted
                       /\ \E k \in 1..Len(mergeOut.skipped) :
                              /\ mergeOut.skipped[k].branch = row.branch
                              /\ mergeOut.skipped[k].name = row.name
                              /\ mergeOut.skipped[k].reason # ""
                  ELSE attempted

\* a run over a conflicting branch listed before a clean one, and a branch that is missing
C18_Witness ==
    /\ mergeOut.op = "merge" /\ ~mergeOut.threw
    /\ Len(mergeOut.preview) = 3
    /\ mergeOut.preview[1].status = "conflict"
    /\ mergeOut.preview[2].status = "clean"
    /\ mergeOut.preview[3].status = "error"
    /\ Len(MergeAttempts) = 2


\* alice and bob have both changed src/core.ts on their branches
BothModifiedCore ==
    /\ "src/core.ts" \in DiffNames(repo, MainBranch, BranchString[BrA])
    /\ "src/core.ts" \in DiffNames(repo, MainBranch, BranchString[BrB])

OverlapReported(out) ==
    \E k \in 1..Len(out.overlaps) :
        /\ out.overlaps[k].teammates = <<"alice", "bob">>
        /\ "src/core.ts" \in out.overlaps[k].files

\* C19: when alice and bob have both modified src/core.ts on their branches, mergePreview
\* returns status conflict for at least one of the two and detectOverlaps returns the
\* pair (alice, bob) with src/core.ts.
C19_OverlapPreviewedAsConflict ==
    [][BothModifiedCore =>
          /\ lastOp'.op = "merge-preview" =>
                 \E i \in 1..Len(mergeOut'.preview) :
                     /\ mergeOut'.preview[i].name \in {"alice", "bob"}
                     /\ mergeOut'.preview[i].status = "conflict"
          /\ lastOp'.op = "detect-overlaps" => OverlapReported(mergeOut')]_vars

\* the part of C19 about detectOverlaps alone
C19_OverlapPairReported ==
    [][(BothModifiedCore /\ lastOp'.op = "detect-overlaps") => OverlapReported(mergeOut')]_vars


\* the profile whose start provisioned the worktree at this path
OwningProfile(path) ==
    CHOOSE p \in Profiles : \E b \in Branches : resolveWorktreePath(Root, b, p) = path

\* the four conditions of an orphan, read from the owning profile's TeamState
IsOrphan(w) ==
    LET st == teamStates[OwningProfile(w.path)]
        has == st.present /\ w.name \in DOMAIN st.teammates
    IN \/ ~dirs[w.path].exists
       \/ st.present /\ st.status = "stopped"
       \/ has /\ st.teammates[w.name].status = "stopped"
       \/ has /\ st.teammates[w.name].last_active # NoTime
              /\ now - st.teammates[w.name].last_active > DefaultStaleHours

\* C20: findOrphans reports a registered worktree exactly when its directory is gone, or
\* the team of the profile that provisioned it is stopped, or its teammate record is
\* stopped, or its last_active is older than the threshold of 4 hours.
C20_OrphanExactly ==
    \A w \in Range(registry.worktrees) :
        (\E o \in Range(findOrphans(registry, teamStates, dirs, DefaultStaleHours, now)) :
            o.path = w.path /\ o.name = w.name) <=> IsOrphan(w)

\* C20 without the teammates that have no last_active yet
C20_OrphanExactlyOnceActive ==
    \A w \in Range(registry.worktrees) :
        LET st == teamStates[OwningProfile(w.path)]
        IN (st.present /\ w.name \in DOMAIN st.teammates
               /\ st.teammates[w.name].last_active # NoTime) =>
              ((\E o \in Range(findOrphans(registry, teamStates, dirs, DefaultStaleHours, now)) :
                   o.path = w.path /\ o.name = w.name) <=> IsOrphan(w))


\* the worktrees the start of profile dev provisions for alice and bob
DevWorktrees == {resolveWorktreePath(Root, b, "dev") : b \in {BrA, BrB}}

\* profile dev is stopped, its two worktrees were left in place and are registered, and the
\* staleness threshold has passed since the stop
DevStoppedAndStale ==
    /\ teamStates["dev"].present
    /\ teamStates["dev"].status = "stopped"
    /\ now - teamStates["dev"].updated_at > DefaultStaleHours
    /\ \A x \in DevWorktrees :
           /\ dirs[x].exists
           /\ \E w \in Range(registry.worktrees) : w.path = x

\* C21: gc run after profile dev was stopped without --cleanup and the staleness threshold
\* has passed removes both worktrees of the profile, clears their registry entries and
\* leaves the TeamState as it was.
C21_GcAfterStop ==
    [][(DevStoppedAndStale /\ lastOp'.op = "gc") =>
          /\ \A x \in DevWorktrees :
                 /\ ~dirs'[x].exists
                 /\ \A w \in Range(registry'.worktrees) : w.path # x
          /\ teamStates' = teamStates]_vars

\* the parts of C21 that gc does achieve when it is given the project root: the directories
\* are removed and the TeamState is left alone
C21_GcRemovesDirectories ==
    [][(DevStoppedAndStale /\ lastOp'.op = "gc" /\ lastOp'.removals # {}) =>
          /\ \A x \in DevWorktrees : ~dirs'[x].exists
          /\ teamStates' = teamStates]_vars

\* gc has just removed both worktrees of the stopped profile dev
C21_Removed ==
    /\ lastOp.op = "gc"
    /\ teamStates["dev"].present /\ teamStates["dev"].status = "stopped"
    /\ {r.path : r \in lastOp.removals} = DevWorktrees
    /\ \A x \in DevWorktrees : \E w \in Range(registry.worktrees) : w.path = x

\* the identity files of the registered worktrees whose path the hint starts with
HintedIdentities(reg, filePath) ==
    {IdentityAt(dirs, w.path) : w \in {x \in Range(reg.worktrees) : StartsWith(filePath, x.path)}}

\* C22: when neither the working directory nor CREW_WORKTREE_PATH gives an identity, the
\* resolver returns, for a file path hint, the identity of a registry entry whose path is
\* a prefix of the hint; without a hint and with exactly one registered worktree, that
\* worktree's identity; and null in every other case.
C22_RegistryStrategy ==
    \A ctx \in Contexts, filePath \in Files \cup {NoPath} :
        LET reg == RegistryOf(ctx)
            id == CrewIdOf(ctx, filePath)
            hinted == HintedIdentities(reg, filePath) \ {NoIdentity}
        IN (~IdentityAt(dirs, ctx.cwd).present /\ ~localRegistry.present) =>
              IF filePath # NoPath /\ hinted # {} THEN id \in hinted
              ELSE IF filePath = NoPath /\ Len(reg.worktrees) = 1
              THEN id = IdentityAt(dirs, reg.worktrees[1].path)
              ELSE id = NoIdentity

(***************************************************************************)
(* Hooks in their surroundings                                             *)
(***************************************************************************)
HookOps == {"post-tool-use", "pre-compact", "session-end", "session-end-load", "session-start"}

\* C23: in crew mode a discovery captured by post-tool-use is stored in the namespace
\* proj/<hash>/crew/_shared/discoveries, the one session-start reads top discoveries from
C23_DiscoveryInSharedNamespace ==
    \A r \in store :
        "crew-shared" \in r.tags =>
            /\ Len(r.namespace) = 5
            /\ r.namespace[1] = "proj"
            /\ SubSeq(r.namespace, 3, 5) = <<"crew", "_shared", "discoveries">>

\* C24: every hook ends with exit code 0 whatever its surroundings: stdin that is no JSON,
\* a record store that cannot be opened, a team-state.json that is no JSON, no git
C24_HooksExitZero == lastOp.op \in HookOps => lastOp.exit = 0

\* a teammate's session-end hook has met a team-state.json that is no JSON
C24_Witness ==
    /\ lastOp.op = "session-end"
    /\ lastOp.fault = "corrupt-state"
    /\ lastOp.mate = "carol"
    /\ teamStates[lastOp.profile].present
    /\ lastOp.exit = 0

\* dir is the directory of the marker, cwd that directory or one below it
AtOrBelow(cwd, dir) ==
    \/ dir = <<"/">>
    \/ cwd = dir
    \/ StartsWith(cwd, dir \o <<"/">>)

\* a hook run under a marker: nothing saved, pruned, written or printed
NoSideEffect ==
    /\ store' = store
    /\ teamStates' = teamStates
    /\ hooks' = hooks
    /\ ~lastOp'.printed
    /\ lastOp'.exit = 0

\* C25: with the marker file in the working directory or in any directory above it, the
\* filesystem root included, a hook saves and prunes no record, writes no team state and
\* prints nothing, and exits 0
C25_DisabledNoSideEffect ==
    [][(lastOp'.marker # NoPath /\ AtOrBelow(lastOp'.cwd, lastOp'.marker)) => NoSideEffect]_vars

\* the same for a marker below the filesystem root
C25_DisabledBelowRoot ==
    [][(/\ lastOp'.marker \notin {NoPath, <<"/">>}
        /\ AtOrBelow(lastOp'.cwd, lastOp'.marker)) => NoSideEffect]_vars

\* session-start has got to its work on a store without records
StartsOnEmptyStore == lastOp'.op = "session-start" /\ lastOp'.ok /\ store = {}

EmptyContextPrinted ==
    /\ lastOut'.printed
    /\ lastOut'.context = <<>>
    /\ lastOp'.exit = 0

\* C26: session-start on a store that holds no record prints an empty additionalContext
\* and exits 0
C26_EmptyStoreEmptyContext == [][StartsOnEmptyStore => EmptyContextPrinted]_vars

\* C26, amended: ... when also the working directory holds no .crew-config.json and no
\* .claude/.super-claude-version
C26_EmptyStoreNoConfig ==
    [][(StartsOnEmptyStore /\ ~lastOut'.hasConfig /\ ~lastOut'.didCleanup)
          => EmptyContextPrinted]_vars

C26_Witness ==
    /\ lastOp.op = "session-start" /\ lastOp.ok
    /\ store = {} /\ lastOut.pruned = 0
    /\ ~lastOut.hasConfig /\ ~lastOut.didCleanup
    /\ lastOut.printed /\ lastOut.context = <<>>
    /\ teamStates["qa"].present

(***************************************************************************)
(* The config reader's functions                                           *)
(***************************************************************************)
CallsOf(fn) == {c \in calls : c.fn = fn}

\* C27: for a fixed project root, two different (profile, branch) pairs whose branches
\* differ after sanitization never get the same worktree path
C27_PathsInjective ==
    \A c1, c2 \in CallsOf("resolveWorktreePath") :
        (<<c1.profile, c1.branch>> # <<c2.profile, c2.branch>> /\ c1.sanitized # c2.sanitized)
            => c1.path # c2.path

\* C28: every sanitized branch that a worktree path is built from is a non-empty word over
\* [A-Za-z0-9._-], so has no "/"
C28_SanitizedIsSafe ==
    \A c \in CallsOf("resolveWorktreePath") \cup CallsOf("_worktree_path_for") :
        /\ c.sanitized # <<>>
        /\ Range(c.sanitized) \subseteq SafeChars

\* the same for the worktree manager script alone
C28_ScriptSanitizedIsSafe ==
    \A c \in CallsOf("_worktree_path_for") :
        /\ c.sanitized # <<>>
        /\ Range(c.sanitized) \subseteq SafeChars

\* the members of a config whatever their order in the file
Canonical(cfg) == Range(Stringify(cfg))

\* C29: two configs have the same hash exactly when they are the same up to whitespace and
\* the order of their keys; reordering the keys never changes the hash
C29_HashUpToKeyOrder ==
    \A c1, c2 \in CallsOf("hashConfig") :
        (c1.hash = c2.hash) <=> (Canonical(c1.cfg) = Canonical(c2.cfg))

\* C30: validateConfig returns no error only when exactly one of team and profiles is
\* there; with both or with neither it returns an error and start exits
C30_ExactlyOneSection ==
    \A c \in CallsOf("validateConfig") :
        ~c.errors => \/ HasTeam(c.cfg) /\ ~HasProfiles(c.cfg)
                     \/ HasProfiles(c.cfg) /\ ~HasTeam(c.cfg)

\* the half on a config with neither section
C30_NeitherIsAnError ==
    \A c \in CallsOf("validateConfig") :
        (~HasTeam(c.cfg) /\ ~HasProfiles(c.cfg)) => c.errors

(***************************************************************************)
(* Start and stop of one profile among others                              *)
(***************************************************************************)
\* the registry entries whose path is a worktree path of the profile
EntriesOf(reg, p) == {w \in Range(reg.worktrees) : OwningProfile(w.path) = p}

\* C34: a start or a stop of one profile leaves the registry entries and the TeamState of
\* every other profile as they were
C34_OtherProfilesUntouched ==
    [][lastOp'.op \in {"start", "stop"} =>
          \A p \in Profiles \ {lastOp'.profile} :
             /\ teamStates'[p] = teamStates[p]
             /\ EntriesOf(registry', p) = EntriesOf(registry, p)]_vars

\* the half on the TeamState
C34_OtherTeamStatesUntouched ==
    [][lastOp'.op \in {"start", "stop"} =>
          \A p \in Profiles \ {lastOp'.profile} : teamStates'[p] = teamStates[p]]_vars

\* C35: right after a start has completed, the profile's TeamState is active and none of
\* its teammates is stopped, also when the start resumed a team that had been stopped
C35_ActiveAfterStart ==
    (lastOp.op = "start" /\ lastOp.ok) =>
        /\ teamStates[lastOp.profile].status = "active"
        /\ \A n \in DOMAIN teamStates[lastOp.profile].teammates :
              teamStates[lastOp.profile].teammates[n].status # "stopped"

\* the half on the team's own status
C35_TeamActiveAfterStart ==
    (lastOp.op = "start" /\ lastOp.ok) => teamStates[lastOp.profile].status = "active"

\* C36: a teammate whose worktree could not be created gets no registry entry and a null
\* worktree_path; every path that a start records, in the registry or in the TeamState,
\* is the path of a worktree directory that exists
C36_RecordedPathsExist ==
    [][Started(lastOp') =>
          /\ \A w \in Range(registry'.worktrees) : dirs'[w.path].exists
          /\ lastOp'.ok =>
                \A n \in DOMAIN teamStates'[lastOp'.profile].teammates :
                   LET wp == teamStates'[lastOp'.profile].teammates[n].worktree_path
                   IN wp # NoPath => dirs'[wp].exists]_vars

\* the teammates of the started profile that are stale by the threshold of the start
StaleAtStart(op, state, t) ==
    LET c == ConfigOf(op)
        mates == c.profiles[op.profile].teammates
    IN {mates[i].name : i \in {j \in 1..Len(mates) :
           \/ mates[j].name \notin DOMAIN state.teammates
           \/ isStale(state.teammates[mates[j].name], Window(op), t)}}

\* C38: the lead prompt of a start is a resume prompt exactly when the start resumed, and
\* it marks as stale the teammates that are stale by the threshold of the start
C38_PromptFollowsDecision ==
    [][(lastOp'.op = "start" /\ lastOp'.ok) =>
          /\ (lastOp'.prompt.kind = "resume") <=> lastOp'.resume
          /\ lastOp'.resume =>
                lastOp'.prompt.stale = StaleAtStart(lastOp', teamStates[lastOp'.profile], now)]_vars

\* the half that a resume prompt is never given by a start that did not resume
C38_ResumePromptOnlyOnResume ==
    (lastOp.op = "start" /\ lastOp.ok /\ lastOp.prompt.kind = "resume") => lastOp.resume

\* the team and every teammate of the state are stopped
AllStopped(state) ==
    /\ state.present
    /\ state.status = "stopped"
    /\ \A n \in DOMAIN state.teammates : state.teammates[n].status = "stopped"

\* C33: once stop has saved a profile's TeamState as stopped, no step of a session-end
\* hook, begun before or after the stop, takes the team or a teammate away from stopped
C33_StoppedPersists ==
    [][lastOp'.op \in {"session-end", "session-end-load"} =>
          \A p \in Profiles : AllStopped(teamStates[p]) => AllStopped(teamStates'[p])]_vars

(***************************************************************************)
(* Teammates that collide, and teammates grouped under crews               *)
(***************************************************************************)
\* the configuration a start of SpecTeams was given
TeamConfigOf(op) == CHOOSE c \in TeamConfigs : hashConfig(c) = op.cfg

\* every teammate the profile lists, those of its crews included (resolveTeammates)
resolveTeammates(profile) ==
    IF Has(profile, "crews")
    THEN LET Flat[c \in 0..Len(profile.crews)] ==
                 IF c = 0 THEN <<>> ELSE Flat[c - 1] \o profile.crews[c].teammates
         IN Flat[Len(profile.crews)]
    ELSE TeammatesOf(profile)

\* C31: a config that passed validation and that a start acted on has no two teammates
\* of one name in the started profile
C31_NamesUnique ==
    (lastOp.op = "start" /\ lastOp.ok) =>
        LET mates == resolveTeammates(TeamConfigOf(lastOp).profiles[lastOp.profile])
        IN \A i, j \in 1..Len(mates) : mates[i].name = mates[j].name => i = j

\* C37: after a start no two teammates of the profile's TeamState share a worktree path,
\* and the identity file of each worktree names the teammate the TeamState maps to it
C37_OneTeammatePerWorktree ==
    (lastOp.op = "start" /\ lastOp.ok) =>
        LET mates == teamStates[lastOp.profile].teammates
        IN /\ \A m, n \in DOMAIN mates :
                 (mates[m].worktree_path # NoPath
                     /\ mates[m].worktree_path = mates[n].worktree_path) => m = n
           /\ \A n \in DOMAIN mates :
                 (mates[n].worktree_path # NoPath /\ dirs[mates[n].worktree_path].exists)
                    => dirs[mates[n].worktree_path].identity.teammate_name = n

\* C39: a start of a profile of a config that validateConfig accepts completes, and the
\* TeamState then lists every teammate of the profile, those of every crew included
C39_ValidConfigStarts ==
    (lastOp.op = "start" /\ validateConfig(TeamConfigOf(lastOp))
        /\ lastOp.profile \in DOMAIN TeamConfigOf(lastOp).profiles) =>
        /\ lastOp.ok
        /\ LET mates == resolveTeammates(TeamConfigOf(lastOp).profiles[lastOp.profile])
           IN \A i \in 1..Len(mates) :
                 mates[i].name \in DOMAIN teamStates[lastOp.profile].teammates

(***************************************************************************)
(* A single team and the profile default; hints and path prefixes          *)
(***************************************************************************)
\* the multi-profile config {profiles: {default: team}} of a single-team config
AsProfiles(cfg) ==
    [cfg EXCEPT !.keyOrder = [i \in DOMAIN cfg.keyOrder |->
                                 IF cfg.keyOrder[i] = "team" THEN "profiles"
                                 ELSE cfg.keyOrder[i]],
                !.profileOrder = <<"default">>,
                !.profiles = [p \in {"default"} |-> cfg.team],
                !.team = NoTeam]

SingleTeam(cfg) == HasTeam(cfg) /\ ~HasProfiles(cfg)

\* C32: a config with a single team is validated and resolved exactly as the config
\* {profiles: {default: team}}: the same verdict of validateConfig, and for every
\* requested profile name, given or not, the same profile under the name default or the
\* same error
C32_TeamIsProfileDefault ==
    /\ \A c1, c2 \in CallsOf("validateConfig") :
          (SingleTeam(c1.cfg) /\ c2.cfg = AsProfiles(c1.cfg)) => c1.errors = c2.errors
    /\ \A c1, c2 \in CallsOf("resolveProfile") :
          (SingleTeam(c1.cfg) /\ c2.cfg = AsProfiles(c1.cfg) /\ c1.profile = c2.profile)
             => c1.resolved = c2.resolved

\* the half on validation and on the selection when no unknown name is asked for
C32_SameWhenNameKnown ==
    /\ \A c1, c2 \in CallsOf("validateConfig") :
          (SingleTeam(c1.cfg) /\ c2.cfg = AsProfiles(c1.cfg)) => c1.errors = c2.errors
    /\ \A c1, c2 \in CallsOf("resolveProfile") :
          (SingleTeam(c1.cfg) /\ c2.cfg = AsProfiles(c1.cfg) /\ c1.profile = c2.profile
              /\ c1.profile \in {"", "default"})
             => c1.resolved = c2.resolved

\* the file lies in the directory, not merely in one whose name begins with its name
Inside(filePath, dir) == StartsWith(filePath, dir \o <<"/">>)

\* C40: a hint that lies inside exactly one registered worktree directory identifies that
\* worktree's teammate, in whatever order the registry lists its entries
C40_HintIdentifiesItsWorktree ==
    \A c \in CallsOf("getCrewIdentity") :
       \A i \in DOMAIN c.worktrees :
          (/\ Inside(c.hint, c.worktrees[i].path)
           /\ \A j \in DOMAIN c.worktrees \ {i} : ~Inside(c.hint, c.worktrees[j].path))
             => c.teammate = c.worktrees[i].name

\* the half on a hint whose worktree is listed first
C40_FirstListedIsFound ==
    \A c \in CallsOf("getCrewIdentity") :
       Inside(c.hint, c.worktrees[1].path) => c.teammate = c.worktrees[1].name

====
